---- MODULE Spec2Model ----
(***************************************************************************)
(* A model of mutative-yjs: bind(source) keeps an immutable plain snapshot *)
(* in step with a Yjs container tree, in both directions.                  *)
(*                                                                         *)
(*   src/src/util.ts   value conversion (toYDataType, toPlainValue)        *)
(*   src/src/bind.ts   applyYEvent(s), defaultApplyPatch, applyUpdate,     *)
(*                     bind (get / subscribe / observer / update / unbind) *)
(*                                                                         *)
(* Yjs and Mutative are libraries the code calls.  They are modelled here  *)
(* by what the calls made in bind.ts do: a container tree that marks, for  *)
(* the open transaction, the keys and items the transaction changed, the   *)
(* change events Yjs derives from those marks at commit, and Mutative's    *)
(* create() as "next state, patch list, changed or not".                   *)
(***************************************************************************)
EXTENDS Integers, Sequences, FiniteSets, TLC

(***************************************************************************)
(* Plain JSON values.  Every value carries its JavaScript kind in t:       *)
(*   "n" a number, "null", "o" an object (m: key -> value),                *)
(*   "a" an array (s: sequence of values), "undef" JavaScript's undefined. *)
(***************************************************************************)
Null == [t |-> "null"]
Undef == [t |-> "undef"]
Num(n) == [t |-> "n", v |-> n]
Obj(m) == [t |-> "o", m |-> m]
Arr(s) == [t |-> "a", s |-> s]
EmptyMap == [k \in {} |-> Null]

\* A path step: a string key or a numeric index (0-based, as in JavaScript).
Key(k) == [key |-> k]
Idx(i) == [idx |-> i]
IsKey(s) == "key" \in DOMAIN s
IsIdx(s) == "idx" \in DOMAIN s

isJSONPrimitive(v) == v.t \in {"n", "null"}

isJSONArray(v) == v.t = "a"

\* typeof v === 'object' is true of null, of a plain object, of an array and
\* of a Yjs container alike.
TypeofObject(v) == v.t \in {"null", "o", "a", "ymap", "yarr"}

isJSONObject(v) == ~isJSONArray(v) /\ TypeofObject(v)

(***************************************************************************)
(* Yjs containers.                                                         *)
(*   Y.Map   [t "ymap", new, m, ch, had]   m: key -> value of live entries *)
(*   Y.Array [t "yarr", new, it, ch]       it: items, each [v, st]         *)
(* The marks describe the transaction in progress and are cleared when it  *)
(* commits: new = created by it; ch = keys it wrote (Y.Map) or whether it  *)
(* touched the list (Y.Array); had = the keys of ch that held an entry     *)
(* when it began; st = "old" (item older than the transaction), "new"      *)
(* (inserted by it), "del" (an old item it deleted, kept as a tombstone).  *)
(***************************************************************************)
Item(v, st) == [v |-> v, st |-> st]

YMapOf(m, isNew) == [t |-> "ymap", new |-> isNew, m |-> m, ch |-> {}, had |-> {}]

YArrOf(items, isNew) == [t |-> "yarr", new |-> isNew, it |-> items, ch |-> FALSE]

\* new Y.Map() that is never added to a document: doc is null, and what is
\* written to it is kept in m, aside (_prelimContent), until it is added
NewYMap ==
    [t |-> "ymap", new |-> TRUE, m |-> EmptyMap, ch |-> {}, had |-> {},
     doc |-> "null"]

IsYMap(y) == y.t = "ymap"

IsYArr(y) == y.t = "yarr"

IsYType(y) == y.t \in {"ymap", "yarr"}

Vis(it) == SelectSeq(it, LAMBDA x : x.st # "del")

YLen(y) == Len(Vis(y.it))

\* The position in it of the k-th live item (k from 1).
RawIdx(it, k) ==
    CHOOSE r \in 1..Len(it) :
        it[r].st # "del" /\ Cardinality({j \in 1..r : it[j].st # "del"}) = k

\* (an update that takes every source for one of a document)
DetachedNever(y) == FALSE

\* source.doc === null: the container was created and never added to a
\* document.  set, delete and clear work on what is kept aside; the reads
\* (get, toJSON) look at the integrated content and find nothing.
Detached(y) == IsYType(y) /\ "doc" \in DOMAIN y

\* Y.Map.toJSON() / Y.Array.toJSON() of a container that is in a document
\* (a container the open transaction created and inserted included)
RECURSIVE Integrated(_)
Integrated(y) ==
    IF IsYMap(y) THEN Obj([k \in DOMAIN y.m |-> Integrated(y.m[k])])
    ELSE IF IsYArr(y)
    THEN LET vis == Vis(y.it) IN Arr([i \in 1..Len(vis) |-> Integrated(vis[i].v)])
    ELSE y

toJSON(y) ==
    IF Detached(y) THEN (IF IsYMap(y) THEN Obj(EmptyMap) ELSE Arr(<<>>))
    ELSE Integrated(y)

toPlainValue(v) == IF IsYType(v) THEN toJSON(v) ELSE v

\* toYDataType with applyJsonArray / applyJsonObject: a fresh container per
\* array and per object, filled by push / set of the converted children.
\* The plain values of this model are trees (no object occurs twice in one
\* value), so the `seen` test of the source never fires here.
RECURSIVE toYDataType(_)
toYDataType(v) ==
    IF isJSONPrimitive(v) THEN v
    ELSE IF isJSONArray(v)
    THEN YArrOf([i \in 1..Len(v.s) |-> Item(toYDataType(v.s[i]), "new")], TRUE)
    ELSE IF isJSONObject(v)
    THEN YMapOf([k \in DOMAIN v.m |-> toYDataType(v.m[k])], TRUE)
    ELSE Undef

(***************************************************************************)
(* The Yjs calls bind.ts makes on a container.  Each returns               *)
(* [thrown, y]: whether Yjs raised, and the container afterwards.          *)
(***************************************************************************)
Ok(y) == [thrown |-> FALSE, y |-> y]

Thrown(y) == [thrown |-> TRUE, y |-> y]

\* Y.Map.get(key) / Y.Array.get(index)
YGet(y, step) ==
    IF Detached(y) THEN Undef
    ELSE IF IsYMap(y)
    THEN IF IsKey(step) /\ step.key \in DOMAIN y.m THEN y.m[step.key] ELSE Undef
    ELSE IF IsIdx(step) /\ step.idx >= 0 /\ step.idx < YLen(y)
         THEN Vis(y.it)[step.idx + 1].v
         ELSE Undef

\* Y.Map.set(key, value)
YMapSet(y, k, v) ==
    [y EXCEPT !.m = [x \in DOMAIN y.m \cup {k} |-> IF x = k THEN v ELSE y.m[x]],
              !.ch = IF y.new THEN {} ELSE @ \cup {k},
              !.had = IF ~y.new /\ k \notin y.ch /\ k \in DOMAIN y.m
                      THEN @ \cup {k} ELSE @]

\* Y.Map.delete(key): nothing happens when the key holds no entry
YMapDelete(y, k) ==
    IF k \notin DOMAIN y.m THEN y
    ELSE [y EXCEPT !.m = [x \in DOMAIN y.m \ {k} |-> y.m[x]],
                   !.ch = IF y.new THEN {} ELSE @ \cup {k},
                   !.had = IF ~y.new /\ k \notin y.ch THEN @ \cup {k} ELSE @]

\* Y.Map.clear(): delete every key
YMapClear(y) ==
    [y EXCEPT !.m = EmptyMap,
              !.ch = IF y.new THEN {} ELSE @ \cup DOMAIN y.m,
              !.had = IF y.new THEN {} ELSE @ \cup (DOMAIN y.m \ y.ch)]

NewItems(vs) == [i \in 1..Len(vs) |-> Item(vs[i], "new")]

\* Y.Array.insert(index, content): after the index-th live item; Yjs raises
\* "Length exceeded" past the end.
YArrInsert(y, index, vs) ==
    IF index < 0 \/ index > YLen(y) THEN Thrown(y)
    ELSE IF vs = <<>> THEN Ok(y)
    ELSE LET r == IF index = 0 THEN 0 ELSE RawIdx(y.it, index) IN
         Ok([y EXCEPT !.it = SubSeq(y.it, 1, r) \o NewItems(vs)
                              \o SubSeq(y.it, r + 1, Len(y.it)),
                      !.ch = ~y.new])

\* Y.Array.push(content): after the last item
YArrPush(y, vs) ==
    IF vs = <<>> THEN y
    ELSE [y EXCEPT !.it = y.it \o NewItems(vs), !.ch = ~y.new]

\* One live item deleted: an old item stays as a tombstone, an item the
\* same transaction inserted disappears.
DeleteLive(it, k) ==
    LET r == RawIdx(it, k) IN
    IF it[r].st = "new"
    THEN SubSeq(it, 1, r - 1) \o SubSeq(it, r + 1, Len(it))
    ELSE [it EXCEPT ![r].st = "del"]

RECURSIVE DeleteRun(_, _, _)
DeleteRun(it, k, n) ==
    IF n = 0 THEN it ELSE DeleteRun(DeleteLive(it, k), k, n - 1)

\* Y.Array.delete(index, length): Yjs deletes the items it finds and raises
\* "Length exceeded" when fewer than length were there.
YArrDelete(y, index, length) ==
    IF length = 0 THEN Ok(y)
    ELSE LET have == IF index < 0 \/ index >= YLen(y) THEN 0 ELSE YLen(y) - index
             n == IF length < have THEN length ELSE have
             z == IF n = 0 THEN y
                  ELSE [y EXCEPT !.it = DeleteRun(y.it, index + 1, n), !.ch = ~y.new]
         IN IF n < length THEN Thrown(z) ELSE Ok(z)

\* The tree with the container at path replaced by n (every step of path
\* resolves to a live child).
RECURSIVE YPut(_, _, _)
YPut(y, path, n) ==
    IF path = <<>> THEN n
    ELSE LET s == Head(path) IN
         IF IsYMap(y)
         THEN [y EXCEPT !.m[s.key] = YPut(@, Tail(path), n)]
         ELSE [y EXCEPT !.it[RawIdx(y.it, s.idx + 1)].v = YPut(@, Tail(path), n)]

\* The value a walk of path by .get() reaches; thrown when a step is taken
\* on a value that has no get (undefined, null, a number).
RECURSIVE YWalk(_, _)
YWalk(y, path) ==
    IF path = <<>> THEN Ok(y)
    ELSE IF ~IsYType(y) THEN Thrown(y)
    ELSE YWalk(YGet(y, Head(path)), Tail(path))

(***************************************************************************)
(* Plain values as the application holds them: JavaScript objects have     *)
(* identity, so one object can occur twice in a value, or inside itself.   *)
(* A heap h is a sequence of nodes and Ref(i) the reference to node i:     *)
(*   [t "o", e]   an object, e its entries [k, v] in insertion order       *)
(*   [t "a", s]   an array, s its elements                                 *)
(* An entry value or element is a primitive or a reference.                *)
(***************************************************************************)
Ref(i) == [t |-> "ref", id |-> i]

IsRef(v) == v.t = "ref"

Converted(thrown, y, seen) == [thrown |-> thrown, y |-> y, seen |-> seen]

\* toYDataType(v, seen), applyJsonArray(dest, source, seen) and
\* applyJsonObject(dest, source, seen) on a heap.  seen is the one WeakSet
\* the whole conversion shares: an object is added when it is first met and
\* never removed.  Each returns [thrown, y, seen]: whether 'Circular
\* reference detected in JSON structure' was raised, the container (dest as
\* the call left it), and the set afterwards.
RECURSIVE toYDataTypeSeen(_, _, _)
RECURSIVE MapItems(_, _, _, _)
RECURSIVE applyJsonObject(_, _, _, _)

\* source.map((item) => toYDataType(item, seen)): acc the items converted
MapItems(h, source, seen, acc) ==
    IF source = <<>> THEN Converted(FALSE, acc, seen)
    ELSE LET r == toYDataTypeSeen(h, Head(source), seen) IN
         IF r.thrown THEN Converted(TRUE, acc, r.seen)
         ELSE MapItems(h, Tail(source), r.seen, Append(acc, r.y))

\* dest.push(source.map(...)): the push follows the whole map
applyJsonArray(dest, h, source, seen) ==
    LET r == MapItems(h, source, seen, <<>>) IN
    IF r.thrown THEN Converted(TRUE, dest, r.seen)
    ELSE Converted(FALSE, YArrPush(dest, r.y), r.seen)

\* Object.entries(source).forEach(([k, v]) => dest.set(k, toYDataType(v, seen))):
\* one set per entry, each as soon as its value is converted
applyJsonObject(dest, h, source, seen) ==
    IF source = <<>> THEN Converted(FALSE, dest, seen)
    ELSE LET r == toYDataTypeSeen(h, Head(source).v, seen) IN
         IF r.thrown THEN Converted(TRUE, dest, r.seen)
         ELSE applyJsonObject(YMapSet(dest, Head(source).k, r.y), h,
                              Tail(source), r.seen)

toYDataTypeSeen(h, v, seen) ==
    IF ~IsRef(v) THEN Converted(FALSE, toYDataType(v), seen)
    ELSE IF v.id \in seen THEN Converted(TRUE, Undef, seen)
    ELSE IF h[v.id].t = "a"
    THEN applyJsonArray(YArrOf(<<>>, TRUE), h, h[v.id].s, seen \cup {v.id})
    ELSE applyJsonObject(YMapOf(EmptyMap, TRUE), h, h[v.id].e, seen \cup {v.id})

\* The values an object or array of the heap holds, in order
Children(node) ==
    IF node.t = "a" THEN node.s ELSE [i \in 1..Len(node.e) |-> node.e[i].v]

\* v contains a self-reference: some object or array below v is reachable
\* from itself (onPath: the nodes between v and the root of the walk)
RECURSIVE Cyclic(_, _, _)
Cyclic(h, v, onPath) ==
    /\ IsRef(v)
    /\ \/ v.id \in onPath
       \/ \E i \in 1..Len(Children(h[v.id])) :
             Cyclic(h, Children(h[v.id])[i], onPath \cup {v.id})

\* The value of a cycle-free v written out as a tree: what deep equality
\* compares (an object that occurs twice is written twice)
RECURSIVE Unfold(_, _)
Unfold(h, v) ==
    IF ~IsRef(v) THEN v
    ELSE LET node == h[v.id] IN
         IF node.t = "a"
         THEN Arr([i \in 1..Len(node.s) |-> Unfold(h, node.s[i])])
         ELSE Obj([k \in {node.e[i].k : i \in 1..Len(node.e)} |->
                     Unfold(h, node.e[CHOOSE i \in 1..Len(node.e) : node.e[i].k = k].v)])

\* A container the open transaction created is part of the tree y
RECURSIVE HasNew(_)
HasNew(y) ==
    /\ IsYType(y)
    /\ \/ y.new
       \/ IF IsYMap(y) THEN \E k \in DOMAIN y.m : HasNew(y.m[k])
          ELSE \E i \in 1..Len(y.it) : y.it[i].st # "del" /\ HasNew(y.it[i].v)

(***************************************************************************)
(* Patch Applier: defaultApplyPatch and applyUpdate (bind.ts).             *)
(* A patch is [op, path, value]; op is "add", "replace" or "remove", path  *)
(* a sequence of steps, value a plain value (Undef on a remove).           *)
(***************************************************************************)
PATCH_REPLACE == "replace"
PATCH_ADD == "add"
PATCH_REMOVE == "remove"

Patch(op, path, value) == [op |-> op, path |-> path, value |-> value]

\* for (k in value) target.set(k, toYDataType(value[k])): the keys of an
\* object, none for null (for-in over null iterates nothing)
RECURSIVE SetAll(_, _, _)
SetAll(y, value, keys) ==
    IF keys = {} THEN y
    ELSE LET k == CHOOSE x \in keys : TRUE IN
         SetAll(YMapSet(y, k, toYDataType(value.m[k])), value, keys \ {k})

OwnKeys(value) == IF value.t = "o" THEN DOMAIN value.m ELSE {}

\* path empty: only replace, and only by a value of the root's kind
ApplyRootPatch(target, patch) ==
    IF patch.op # PATCH_REPLACE THEN Thrown(target)
    ELSE IF IsYMap(target) /\ isJSONObject(patch.value)
    THEN Ok(SetAll(YMapClear(target), patch.value, OwnKeys(patch.value)))
    ELSE IF IsYArr(target) /\ isJSONArray(patch.value)
    THEN Ok(YArrPush(YArrDelete(target, 0, YLen(target)).y,
                     [i \in 1..Len(patch.value.s) |-> toYDataType(patch.value.s[i])]))
    ELSE Thrown(target)

\* The same loop when the value returned is an object of the heap: every
\* key is converted by its own toYDataType call, with a WeakSet of its own
RECURSIVE SetAllSeen(_, _, _)
SetAllSeen(y, h, entries) ==
    IF entries = <<>> THEN Ok(y)
    ELSE LET r == toYDataTypeSeen(h, Head(entries).v, {}) IN
         IF r.thrown THEN Thrown(y)
         ELSE SetAllSeen(YMapSet(y, Head(entries).k, r.y), h, Tail(entries))

\* The root replaced by an object or array of the heap: clear and set key by
\* key, or delete everything and push the mapped elements; every key and
\* every element is converted by a toYDataType call of its own
RECURSIVE MapEach(_, _, _)
MapEach(h, source, acc) ==
    IF source = <<>> THEN Ok(acc)
    ELSE LET r == toYDataTypeSeen(h, Head(source), {}) IN
         IF r.thrown THEN Thrown(acc) ELSE MapEach(h, Tail(source), Append(acc, r.y))

ApplyRootPatchSeen(target, h, v) ==
    IF IsYMap(target) /\ h[v.id].t = "o"
    THEN SetAllSeen(YMapClear(target), h, h[v.id].e)
    ELSE IF IsYArr(target) /\ h[v.id].t = "a"
    THEN LET emptied == YArrDelete(target, 0, YLen(target)).y
             items == MapEach(h, h[v.id].s, <<>>)
         IN IF items.thrown THEN Thrown(emptied) ELSE Ok(YArrPush(emptied, items.y))
    ELSE Thrown(target)

\* base is a Y.Map and the property a string
ApplyMapPatch(base, property, patch) ==
    IF patch.op \in {PATCH_ADD, PATCH_REPLACE}
    THEN Ok(YMapSet(base, property, toYDataType(patch.value)))
    ELSE IF patch.op = PATCH_REMOVE
    THEN Ok(YMapDelete(base, property))
    ELSE Ok(base)

\* (a replace at an index that always deletes the element and inserts anew)
ApplyArrayReplaceWhole(base, property, value) ==
    LET d == YArrDelete(base, property, 1) IN
    IF d.thrown THEN d ELSE YArrInsert(d.y, property, <<toYDataType(value)>>)

\* replace at an index: a Y.Map element is cleared and refilled in place
\* when the new value passes isJSONObject (null passes it, and then
\* Object.entries(null) raises after the clear); anything else is deleted
\* and inserted anew.
ApplyArrayReplace(base, property, value) ==
    LET oldValue == YGet(base, Idx(property)) IN
    IF IsYMap(oldValue) /\ isJSONObject(value)
    THEN LET cleared == YPut(base, <<Idx(property)>>, YMapClear(oldValue)) IN
         IF value.t = "null" THEN Thrown(cleared)
         ELSE Ok(YPut(base, <<Idx(property)>>,
                      SetAll(YMapClear(oldValue), value, OwnKeys(value))))
    ELSE LET d == YArrDelete(base, property, 1) IN
         IF d.thrown THEN d
         ELSE YArrInsert(d.y, property, <<toYDataType(value)>>)

\* base is a Y.Array and the property a number
ApplyArrayPatch(base, property, patch) ==
    IF patch.op = PATCH_ADD
    THEN YArrInsert(base, property, <<toYDataType(patch.value)>>)
    ELSE IF patch.op = PATCH_REPLACE
    THEN ApplyArrayReplace(base, property, patch.value)
    ELSE IF patch.op = PATCH_REMOVE
    THEN YArrDelete(base, property, 1)
    ELSE Ok(base)

\* (a length patch that only ever shortens)
ApplyLengthShrinkOnly(base, value) ==
    IF value.v < YLen(base)
    THEN YArrDelete(base, value.v, YLen(base) - value.v)
    ELSE Ok(base)

\* base is a Y.Array and the property is 'length'
ApplyLengthPatch(base, value) ==
    IF value.v < YLen(base)
    THEN YArrDelete(base, value.v, YLen(base) - value.v)
    ELSE IF value.v > YLen(base)
    THEN Ok(YArrPush(base, [i \in 1..(value.v - YLen(base)) |-> Null]))
    ELSE Ok(base)

Front(s) == SubSeq(s, 1, Len(s) - 1)

Last(s) == s[Len(s)]

defaultApplyPatch(target, patch) ==
    IF patch.path = <<>> THEN ApplyRootPatch(target, patch)
    ELSE
    LET walk == YWalk(target, Front(patch.path))
        base == walk.y
        property == Last(patch.path)
        done == IF IsYMap(base) /\ IsKey(property)
                THEN ApplyMapPatch(base, property.key, patch)
                ELSE IF IsYArr(base) /\ IsIdx(property)
                THEN ApplyArrayPatch(base, property.idx, patch)
                ELSE IF IsYArr(base) /\ property = Key("length")
                THEN ApplyLengthPatch(base, patch.value)
                ELSE Thrown(base)
    IN IF walk.thrown \/ ~IsYType(base) THEN Thrown(target)
       ELSE [thrown |-> done.thrown, y |-> YPut(target, Front(patch.path), done.y)]

\* Whether defaultApplyPatch ends in one of its three notImplemented calls:
\* a root patch that is no replace, a root replace by a value that passes
\* neither type test for the root, or a base and property that match none
\* of the three branches.  A walk that raises (a TypeError of .get) never
\* gets there.
notImplemented(target, patch) ==
    IF patch.path = <<>>
    THEN \/ patch.op # PATCH_REPLACE
         \/ /\ ~(IsYMap(target) /\ isJSONObject(patch.value))
            /\ ~(IsYArr(target) /\ isJSONArray(patch.value))
    ELSE LET walk == YWalk(target, Front(patch.path))
             base == walk.y
             property == Last(patch.path)
         IN /\ ~walk.thrown
            /\ ~(IsYMap(base) /\ IsKey(property))
            /\ ~(IsYArr(base) /\ IsIdx(property))
            /\ ~(IsYArr(base) /\ property = Key("length"))

\* for (const patch of patches) applyPatch(source, patch): the first patch
\* that raises ends the loop and leaves what the earlier ones did.
RECURSIVE ApplyPatches(_, _)
ApplyPatches(source, patches) ==
    IF patches = <<>> THEN Ok(source)
    ELSE LET r == defaultApplyPatch(source, Head(patches)) IN
         IF r.thrown THEN r ELSE ApplyPatches(r.y, Tail(patches))

(***************************************************************************)
(* options.applyPatch.  The hooks of the application:                      *)
(*   "none"      no hook given                                             *)
(*   "delegate"  (target, patch, apply) => { apply(target, patch) }        *)
(*   "protect"   as "delegate", but returns at once when patch.path[0] is  *)
(*               'count'                                                   *)
(*   "skip"      a hook that never delegates                               *)
(* The loop result carries, besides [thrown, y], the patches the hook was  *)
(* called with (hooked) and the patches the default applier ran (ran).     *)
(***************************************************************************)
Hooks == {"none", "delegate", "protect", "skip"}

Applied(thrown, y, hooked, ran) ==
    [thrown |-> thrown, y |-> y, hooked |-> hooked, ran |-> ran]

\* whether the hook calls the default applier for the patch
Delegates(hook, patch) ==
    \/ hook = "delegate"
    \/ hook = "protect" /\ ~(patch.path # <<>> /\ Head(patch.path) = Key("count"))

\* (a wrapper that runs the default applier whatever the hook does)
applyPatchAlways(hook, patch) == TRUE

\* const applyPatch = applyPatchInOption ? (target, patch) =>
\*   applyPatchInOption(target, patch, defaultApplyPatch) : defaultApplyPatch
applyPatch(hook, patch) == hook = "none" \/ Delegates(hook, patch)

RECURSIVE ApplyPatchesVia(_, _, _)
ApplyPatchesVia(hook, patches, acc) ==
    IF patches = <<>> THEN acc
    ELSE LET patch == Head(patches)
             hooked == IF hook = "none" THEN acc.hooked ELSE Append(acc.hooked, patch)
         IN IF ~applyPatch(hook, patch)
            THEN ApplyPatchesVia(hook, Tail(patches),
                                 Applied(FALSE, acc.y, hooked, acc.ran))
            ELSE LET r == defaultApplyPatch(acc.y, patch) IN
                 IF r.thrown THEN Applied(TRUE, r.y, hooked, Append(acc.ran, patch))
                 ELSE ApplyPatchesVia(hook, Tail(patches),
                                      Applied(FALSE, r.y, hooked, Append(acc.ran, patch)))

applyUpdate(hook, source, patches) ==
    ApplyPatchesVia(hook, patches, Applied(FALSE, source, <<>>, <<>>))

(***************************************************************************)
(* Mutative's create(base, fn, {enablePatches}) as bind.ts uses it.        *)
(* The mutator fn is a sequence of draft operations:                       *)
(*   [op "set", path, key, v]      draft<path>[key] = v                    *)
(*   [op "del", path, key]         delete draft<path>[key]                 *)
(*   [op "idx", path, i, v]        draft<path>[i] = v          (i < length)*)
(*   [op "push", path, v]          draft<path>.push(v)                     *)
(*   [op "splice", path, start, dc, ins]                                   *)
(*   [op "ret", v]                 return rawReturn(v)                     *)
(* path addresses a container of the base state.  The draft keeps, per     *)
(* container it touched (in the order the drafts were created): the        *)
(* original node, the assigned keys in assignment order (objects), and for *)
(* each element of an array where it came from (org: the original index,   *)
(* or 0 for a value the mutator put there).                                *)
(***************************************************************************)
RECURSIVE PGet(_, _)
PGet(v, path) ==
    IF path = <<>> THEN v
    ELSE IF v.t = "o" THEN PGet(v.m[Head(path).key], Tail(path))
    ELSE PGet(v.s[Head(path).idx + 1], Tail(path))

RECURSIVE PPut(_, _, _)
PPut(v, path, n) ==
    IF path = <<>> THEN n
    ELSE IF v.t = "o" THEN [v EXCEPT !.m[Head(path).key] = PPut(@, Tail(path), n)]
    ELSE [v EXCEPT !.s[Head(path).idx + 1] = PPut(@, Tail(path), n)]

\* Whether path resolves to a container of kind t in v.
RECURSIVE PResolves(_, _, _)
PResolves(v, path, t) ==
    IF path = <<>> THEN v.t = t
    ELSE LET s == Head(path) IN
         IF v.t = "o" /\ IsKey(s) /\ s.key \in DOMAIN v.m
         THEN PResolves(v.m[s.key], Tail(path), t)
         ELSE IF v.t = "a" /\ IsIdx(s) /\ s.idx < Len(v.s)
         THEN PResolves(v.s[s.idx + 1], Tail(path), t)
         ELSE FALSE

Has(o, k) == k \in DOMAIN o.m

MapWith(m, k, v) == [x \in DOMAIN m \cup {k} |-> IF x = k THEN v ELSE m[x]]

MapWithout(m, k) == [x \in DOMAIN m \ {k} |-> m[x]]

Min(a, b) == IF a < b THEN a ELSE b

\* Array.prototype.splice(start, deleteCount, ...items), start >= 0
JsSplice(s, start, dc, ins) ==
    LET st == Min(start, Len(s))
        n == Min(dc, Len(s) - st)
    IN SubSeq(s, 1, st) \o ins \o SubSeq(s, st + n + 1, Len(s))

NodeInfo(node) ==
    [orig |-> node, keys |-> <<>>,
     org |-> IF node.t = "a" THEN [i \in 1..Len(node.s) |-> i] ELSE <<>>]

\* (a draft that marks only the container written to)
MarkChangedLeaf(path) == {path}

\* markChanged: a write to the draft at path marks that draft and every
\* draft above it, up to the root; each marked draft is finalized to a copy,
\* every other container of the result is the object the base held
MarkChanged(path) == {SubSeq(path, 1, n) : n \in 0..Len(path)}

\* A container the mutator puts into the draft is the mutator's object, new
\* to the snapshot; a primitive has no identity.
Supplied(path, step, v) == IF isJSONPrimitive(v) THEN {} ELSE {Append(path, step)}

NewDraft(base) ==
    [val |-> base, order |-> << <<>> >>, info |-> (<<>> :> NodeInfo(base)),
     changed |-> FALSE, copied |-> {}]

\* Reading draft<path> creates the drafts of the containers on the way.
RECURSIVE Touch(_, _, _)
Touch(D, path, n) ==
    IF n > Len(path) THEN D
    ELSE LET q == SubSeq(path, 1, n) IN
         Touch(IF q \in DOMAIN D.info THEN D
               ELSE [D EXCEPT !.order = Append(@, q),
                              !.info = @ @@ (q :> NodeInfo(PGet(D.val, q)))],
               path, n + 1)

KeyPos(keys, k) == {i \in 1..Len(keys) : keys[i][1] = k}

\* assignedMap.set(k, a): a key already there keeps its place
KSet(keys, k, a) ==
    IF KeyPos(keys, k) = {} THEN Append(keys, <<k, a>>)
    ELSE [i \in 1..Len(keys) |-> IF keys[i][1] = k THEN <<k, a>> ELSE keys[i]]

\* assignedMap.delete(k)
KDel(keys, k) == SelectSeq(keys, LAMBDA e : e[1] # k)

HasContainer(vs) == \E i \in 1..Len(vs) : ~isJSONPrimitive(vs[i])

DraftSet(D0, op) ==
    LET D == Touch(D0, op.path, 1)
        node == PGet(D.val, op.path)
        inf == D.info[op.path]
        same == isJSONPrimitive(op.v) /\ Has(node, op.key) /\ node.m[op.key] = op.v
        back == isJSONPrimitive(op.v) /\ Has(inf.orig, op.key)
                /\ inf.orig.m[op.key] = op.v
    IN IF same THEN D
       ELSE [D EXCEPT !.val = PPut(@, op.path, Obj(MapWith(node.m, op.key, op.v))),
                      !.changed = TRUE,
                      !.copied = @ \cup MarkChanged(op.path)
                                   \cup Supplied(op.path, Key(op.key), op.v),
                      !.info[op.path].keys =
                          IF back THEN KDel(@, op.key) ELSE KSet(@, op.key, TRUE)]

DraftDelete(D0, op) ==
    LET D == Touch(D0, op.path, 1)
        node == PGet(D.val, op.path)
        inf == D.info[op.path]
    IN IF Has(inf.orig, op.key)
       THEN [D EXCEPT !.val = PPut(@, op.path, Obj(MapWithout(node.m, op.key))),
                      !.changed = TRUE,
                      !.copied = @ \cup MarkChanged(op.path),
                      !.info[op.path].keys = KSet(@, op.key, FALSE)]
       ELSE [D EXCEPT !.val = PPut(@, op.path, Obj(MapWithout(node.m, op.key))),
                      !.info[op.path].keys = KDel(@, op.key)]

DraftIndex(D0, op) ==
    LET D == Touch(D0, op.path, 1)
        node == PGet(D.val, op.path)
        same == isJSONPrimitive(op.v) /\ node.s[op.i + 1] = op.v
    IN IF same THEN D
       ELSE [D EXCEPT !.val = PPut(@, op.path, Arr([node.s EXCEPT ![op.i + 1] = op.v])),
                      !.changed = TRUE,
                      !.copied = @ \cup MarkChanged(op.path)
                                   \cup Supplied(op.path, Idx(op.i), op.v),
                      !.info[op.path].org[op.i + 1] = 0]

DraftSplice(D0, path, start, dc, ins) ==
    LET D == Touch(D0, path, 1)
        node == PGet(D.val, path)
        next == JsSplice(node.s, start, dc, ins)
        zeros == [i \in 1..Len(ins) |-> 0]
    IN IF next = node.s /\ ~HasContainer(ins) THEN D
       ELSE [D EXCEPT !.val = PPut(@, path, Arr(next)),
                      !.changed = TRUE,
                      !.copied = @ \cup MarkChanged(path)
                                   \cup UNION {Supplied(path,
                                                        Idx(Min(start, Len(node.s)) + i - 1),
                                                        ins[i]) : i \in 1..Len(ins)},
                      !.info[path].org = JsSplice(@, start, dc, zeros)]

DraftOp(D, op) ==
    IF op.op = "set" THEN DraftSet(D, op)
    ELSE IF op.op = "del" THEN DraftDelete(D, op)
    ELSE IF op.op = "idx" THEN DraftIndex(D, op)
    ELSE IF op.op = "push"
    THEN DraftSplice(D, op.path, Len(PGet(D.val, op.path).s), 0, <<op.v>>)
    ELSE DraftSplice(D, op.path, op.start, op.dc, op.ins)

RECURSIVE RunMutator(_, _)
RunMutator(D, fn) ==
    IF fn = <<>> THEN D ELSE RunMutator(DraftOp(D, Head(fn)), Tail(fn))

\* The patches of one object draft: one per assigned key, in assignment order
ObjectPatches(D, q) ==
    LET inf == D.info[q]
        copy == PGet(D.val, q)
        one(e) == IF ~e[2] THEN Patch(PATCH_REMOVE, Append(q, Key(e[1])), Undef)
                  ELSE IF Has(inf.orig, e[1])
                  THEN Patch(PATCH_REPLACE, Append(q, Key(e[1])), copy.m[e[1]])
                  ELSE Patch(PATCH_ADD, Append(q, Key(e[1])), copy.m[e[1]])
        kept == SelectSeq(inf.keys, LAMBDA e :
                   ~(e[2] /\ Has(inf.orig, e[1]) /\ isJSONPrimitive(copy.m[e[1]])
                     /\ inf.orig.m[e[1]] = copy.m[e[1]]))
    IN [i \in 1..Len(kept) |-> one(kept[i])]

\* copy[i] !== original[i]: by value for primitives, by identity otherwise
ElementDiffers(inf, copy, i) ==
    IF isJSONPrimitive(copy[i]) /\ isJSONPrimitive(inf.orig.s[i])
    THEN copy[i] # inf.orig.s[i]
    ELSE inf.org[i] # i

\* The patches of one array draft (generateArrayPatches, array length
\* assignment on): replace for each changed index below both lengths, then
\* add for each index the array grew by, or replace of 'length' when it shrank.
ArrayPatches(D, q) ==
    LET inf == D.info[q]
        copy == PGet(D.val, q).s
        lo == Min(Len(copy), Len(inf.orig.s))
        changed == SelectSeq([i \in 1..lo |-> i],
                             LAMBDA i : ElementDiffers(inf, copy, i))
        replaces == [j \in 1..Len(changed) |->
                        Patch(PATCH_REPLACE, Append(q, Idx(changed[j] - 1)),
                              copy[changed[j]])]
        adds == [j \in 1..(Len(copy) - lo) |->
                    Patch(PATCH_ADD, Append(q, Idx(lo + j - 1)), copy[lo + j])]
        shrink == IF Len(copy) < Len(inf.orig.s)
                  THEN <<Patch(PATCH_REPLACE, Append(q, Key("length")),
                               Num(Len(copy)))>>
                  ELSE <<>>
    IN replaces \o adds \o shrink

\* The drafts are finalized last-created first.
RECURSIVE DraftPatches(_, _)
DraftPatches(D, n) ==
    IF n = 0 THEN <<>>
    ELSE LET q == D.order[n] IN
         (IF D.info[q].orig.t = "a" THEN ArrayPatches(D, q) ELSE ObjectPatches(D, q))
         \o DraftPatches(D, n - 1)

\* create(): [next, patches, changed, copied]; next is base itself (the same
\* reference) when changed is FALSE; copied: the paths of the containers
\* that are new objects in next (copies of drafts, and what the mutator
\* supplied).
create(base, fn) ==
    IF fn # <<>> /\ fn[1].op = "ret"
    THEN [next |-> fn[1].v,
          patches |-> <<Patch(PATCH_REPLACE, <<>>, fn[1].v)>>,
          changed |-> TRUE, copied |-> {<<>>}]
    ELSE LET D == RunMutator(NewDraft(base), fn) IN
         [next |-> D.val,
          patches |-> IF D.changed THEN DraftPatches(D, Len(D.order)) ELSE <<>>,
          changed |-> D.changed, copied |-> D.copied]

(***************************************************************************)
(* What Yjs does when a transaction commits: one change event per          *)
(* container that existed before the transaction, is still in the tree and *)
(* was changed by it, parents before children (sorted by path length);     *)
(* then the marks are cleared.  A Y.Map event carries the changed keys     *)
(* with add / update / delete, a Y.Array event the delta run.  A delta     *)
(* entry is [retain, delete, insert] with exactly one of them set (0 and   *)
(* <<>> stand for an absent field).                                        *)
(***************************************************************************)
KeyChanges(y) ==
    LET live == {k \in y.ch : k \in DOMAIN y.m \/ k \in y.had} IN
    [k \in live |-> IF k \notin DOMAIN y.m THEN "delete"
                    ELSE IF k \in y.had THEN "update" ELSE "add"]

DRetain(n) == [retain |-> n, delete |-> 0, insert |-> <<>>]
DDelete(n) == [retain |-> 0, delete |-> n, insert |-> <<>>]
DInsert(vs) == [retain |-> 0, delete |-> 0, insert |-> vs]

\* One more item appended to the run acc
DeltaStep(acc, item) ==
    LET n == Len(acc) IN
    IF item.st = "del"
    THEN IF n > 0 /\ acc[n].delete > 0
         THEN [acc EXCEPT ![n].delete = @ + 1] ELSE Append(acc, DDelete(1))
    ELSE IF item.st = "new"
    THEN IF n > 0 /\ acc[n].insert # <<>>
         THEN [acc EXCEPT ![n].insert = Append(@, item.v)]
         ELSE Append(acc, DInsert(<<item.v>>))
    ELSE IF n > 0 /\ acc[n].retain > 0
         THEN [acc EXCEPT ![n].retain = @ + 1] ELSE Append(acc, DRetain(1))

RECURSIVE DeltaScan(_, _, _)
DeltaScan(it, i, acc) ==
    IF i > Len(it) THEN acc ELSE DeltaScan(it, i + 1, DeltaStep(acc, it[i]))

\* A trailing retain is not reported.
Delta(it) ==
    LET d == DeltaScan(it, 1, <<>>) IN
    IF d # <<>> /\ d[Len(d)].retain > 0 THEN Front(d) ELSE d

RECURSIVE YEvents(_, _)
RECURSIVE YMapChildEvents(_, _, _)
RECURSIVE YArrChildEvents(_, _, _)
YEvents(y, path) ==
    IF ~IsYType(y) \/ y.new THEN <<>>
    ELSE IF IsYMap(y)
    THEN (IF y.ch # {}
          THEN <<[k |-> "map", path |-> path, keys |-> KeyChanges(y)]>> ELSE <<>>)
         \o YMapChildEvents(y, path, DOMAIN y.m)
    ELSE (IF y.ch
          THEN <<[k |-> "arr", path |-> path, delta |-> Delta(y.it)]>> ELSE <<>>)
         \o YArrChildEvents(y, path, 1)

YMapChildEvents(y, path, keys) ==
    IF keys = {} THEN <<>>
    ELSE LET k == CHOOSE x \in keys : TRUE IN
         YEvents(y.m[k], Append(path, Key(k))) \o YMapChildEvents(y, path, keys \ {k})

YArrChildEvents(y, path, i) ==
    IF i > YLen(y) THEN <<>>
    ELSE YEvents(Vis(y.it)[i].v, Append(path, Idx(i - 1)))
         \o YArrChildEvents(y, path, i + 1)

RECURSIVE SortByDepth(_, _)
SortByDepth(evs, d) ==
    IF evs = <<>> THEN <<>>
    ELSE SelectSeq(evs, LAMBDA e : Len(e.path) = d)
         \o SortByDepth(SelectSeq(evs, LAMBDA e : Len(e.path) # d), d + 1)

RECURSIVE Clean(_)
Clean(y) ==
    IF IsYMap(y) THEN YMapOf([k \in DOMAIN y.m |-> Clean(y.m[k])], FALSE)
    ELSE IF IsYArr(y)
    THEN LET vis == Vis(y.it) IN
         YArrOf([i \in 1..Len(vis) |-> Item(Clean(vis[i].v), "old")], FALSE)
    ELSE y

Commit(y) == [events |-> SortByDepth(YEvents(y, <<>>), 0), y |-> Clean(y)]

(***************************************************************************)
(* Event Translator: applyYEvent and applyYEvents (bind.ts).  The draft is *)
(* the Mutative draft of the snapshot; source is the live tree, in which   *)
(* event.target is found by the event's path.                              *)
(***************************************************************************)
\* obj[step] of JavaScript, down a path: thrown when a step is taken on
\* undefined or null; a missing property reads undefined.
RECURSIVE PWalk(_, _)
PWalk(v, path) ==
    IF path = <<>> THEN Ok(v)
    ELSE IF v.t \in {"undef", "null"} THEN Thrown(v)
    ELSE LET s == Head(path) IN
         IF v.t = "o" /\ IsKey(s) /\ s.key \in DOMAIN v.m
         THEN PWalk(v.m[s.key], Tail(path))
         ELSE IF v.t = "a" /\ IsIdx(s) /\ s.idx < Len(v.s)
         THEN PWalk(v.s[s.idx + 1], Tail(path))
         ELSE PWalk(Undef, Tail(path))

Dr(thrown, D) == [thrown |-> thrown, D |-> D]

\* event.changes.keys.forEach(...) on an object draft
RECURSIVE ApplyKeyChanges(_, _, _, _)
ApplyKeyChanges(D, event, source, keys) ==
    IF keys = {} THEN D
    ELSE LET k == CHOOSE x \in keys : TRUE
             op == IF event.keys[k] \in {"add", "update"}
                   THEN [op |-> "set", path |-> event.path, key |-> k,
                         v |-> toPlainValue(YGet(source, Key(k)))]
                   ELSE [op |-> "del", path |-> event.path, key |-> k]
         IN ApplyKeyChanges(DraftOp(D, op), event, source, keys \ {k})

\* event.changes.delta.forEach(...) on an array draft, with the running
\* cursor `retain`
\* (a cursor that a delete moves on as well)
DeltaChangeDeleteAdvances(D, path, change, retain) ==
    LET r1 == IF change.retain # 0 THEN retain + change.retain ELSE retain
        D1 == IF change.delete # 0
              THEN DraftSplice(D, path, r1, change.delete, <<>>) ELSE D
        ins == [i \in 1..Len(change.insert) |-> toPlainValue(change.insert[i])]
        D2 == IF change.insert # <<>>
              THEN DraftSplice(D1, path, r1, 0, ins) ELSE D1
    IN [D |-> D2, retain |-> r1 + change.delete + Len(change.insert)]

\* One change of the delta: the draft and the cursor after it
DeltaChange(D, path, change, retain) ==
    LET r1 == IF change.retain # 0 THEN retain + change.retain ELSE retain
        D1 == IF change.delete # 0
              THEN DraftSplice(D, path, r1, change.delete, <<>>) ELSE D
        ins == [i \in 1..Len(change.insert) |-> toPlainValue(change.insert[i])]
        D2 == IF change.insert # <<>>
              THEN DraftSplice(D1, path, r1, 0, ins) ELSE D1
        r2 == IF change.insert # <<>> THEN r1 + Len(change.insert) ELSE r1
    IN [D |-> D2, retain |-> r2]

RECURSIVE ApplyDelta(_, _, _, _)
ApplyDelta(D, path, delta, retain) ==
    IF delta = <<>> THEN D
    ELSE LET c == DeltaChange(D, path, Head(delta), retain) IN
         ApplyDelta(c.D, path, Tail(delta), c.retain)

applyYEvent(D, base, event, source) ==
    IF event.k = "map" /\ isJSONObject(base)
    THEN IF base.t = "null"
         THEN Dr(DOMAIN event.keys # {}, D)
         ELSE Dr(FALSE, ApplyKeyChanges(D, event, source, DOMAIN event.keys))
    ELSE IF event.k = "arr" /\ isJSONArray(base)
    THEN Dr(FALSE, ApplyDelta(D, event.path, event.delta, 0))
    ELSE Dr(FALSE, D)

RECURSIVE ApplyEventList(_, _, _)
ApplyEventList(D, events, source) ==
    IF events = <<>> THEN Dr(FALSE, D)
    ELSE LET event == Head(events)
             walk == PWalk(D.val, event.path)
             r == applyYEvent(D, walk.y, event, YWalk(source, event.path).y)
         IN IF walk.thrown THEN Dr(TRUE, D)
            ELSE IF r.thrown THEN r
            ELSE ApplyEventList(r.D, Tail(events), source)

\* [thrown, next, changed]: next is the snapshot itself when nothing changed
applyYEvents(snapshot, events, source) ==
    LET r == ApplyEventList(NewDraft(snapshot), events, source) IN
    [thrown |-> r.thrown, next |-> r.D.val, changed |-> r.D.changed]

(***************************************************************************)
(* The program: one document whose root Y.Map is the source, and binders   *)
(* made by bind(source).  Calls nest (a listener may call update, Yjs      *)
(* calls the observers when a transaction commits), so the position of the *)
(* running call is a stack of frames, top first:                           *)
(*   [k "round", b, pos, ...]   subscription.forEach of binder b; pos      *)
(*                              entries of the set have been visited       *)
(*   [k "dispatch", tx, todo]   Yjs calling the deep observers of a        *)
(*                              committed transaction; todo: binders left  *)
(*   [k "outer"]                the body of a doc.transact(fn, origin) of  *)
(*                              the application, fn calling update         *)
(*   [k "call"]                 the application's call, at the bottom      *)
(***************************************************************************)
VARIABLES
    ydoc,       \* the source container tree
    made,       \* the binders that bind() has returned
    snapshot,   \* per binder: [ref, val], the object get() returns
    subs,       \* per binder: the subscription Set, in insertion order
    obs,        \* the deep observers registered on the source, in order
    stack,      \* the frames of the running call, top first
    pending,    \* transactions committed during a dispatch, not yet dispatched
    nref,       \* the last snapshot reference handed out in this call
    calls,      \* how many calls the application has made
    log,        \* what the running (or the last) top-level call did
    opts,       \* per binder: options.patchesOptions as given to bind
    handles,    \* per binder and listener: the unsubscribe function of the
                \* listener is "none" (never subscribed), "held" or "called"
    heap,       \* the plain objects the application holds for conversion
    hooks       \* per binder: options.applyPatch as given to bind

vars == <<ydoc, made, snapshot, subs, obs, stack, pending, nref, calls, log,
          opts, handles, heap, hooks>>

Binders == {"A", "B"}

\* The listeners the application subscribes, each on its own binder:
\* "rec" only records; "chain" also calls update(count := count + 1) while
\* the count it received is below ChainK; "quit" calls its own unsubscribe
\* function and "drop" the unsubscribe function of "rec", each when the
\* application holds one (let unsub; ... if (unsub) unsub()).
Listeners == {"rec", "chain", "recB"}

Quitters == {"rec", "quit", "drop"}

\* "join" calls binder.subscribe(late), without options; "late" only records
Joiners == {"join", "late"}

ListenerOf(b) == IF b = "A" THEN {"rec", "chain"} ELSE {"recB"}

\* every function the application may subscribe on binder b
FunctionsOf(b) ==
    ListenerOf(b) \cup (IF b = "A" THEN Quitters \cup Joiners ELSE {})

IsChain(l) == l = "chain"

ChainK == 2

MaxLen == 2

MaxCalls == 4

\* The values held for conversion: at most MaxNodes objects and arrays, the
\* first with up to MaxFanout entries, the others with up to InnerFanout
MaxNodes == 2

MaxFanout == 2

InnerFanout == 1

GraphKeys == <<"x", "y", "z", "w">>

\* The arrays spliced: up to MaxArray elements, the i-th the number i or
\* the object {id: i}; a splice removes up to MaxLen elements and inserts up
\* to MaxLen, the i-th inserted being the number MaxArray + i or null
MaxArray == 4

ElementsAt(i) == {Num(i), Obj([id |-> Num(i)])}

InsertedAt(i) == {Num(MaxArray + i), Null}

Choices(n, At(_)) ==
    UNION {{s \in [1..m -> UNION {At(i) : i \in 1..m}] : \A i \in 1..m : s[i] \in At(i)} :
             m \in 0..n}

Splices ==
    [t : {"splice"}, start : 0..MaxArray, dc : 0..MaxLen,
     ins : Choices(MaxLen, InsertedAt)]

\* The values assigned to an index: null, a number, arrays, objects
Assigned ==
    {Null, Num(0), Arr(<<>>), Arr(<<Num(1)>>), Obj(EmptyMap), Obj([id |-> Num(0)]),
     Obj([name |-> Num(1)])}

\* The patches handed to the default applier on a source {items: [...]}
PatchOps == {PATCH_ADD, PATCH_REPLACE, PATCH_REMOVE}

PatchPaths ==
    {<<Idx(0)>>, <<Key("items"), Key("foo")>>, <<Key("items"), Idx(0), Key("x")>>,
     <<Key("items"), Idx(0), Key("id"), Key("x")>>, <<Key("nokey"), Key("x")>>,
     <<Key("nokey"), Key("x"), Key("y")>>}

PatchesTried ==
    {Patch(op, <<Key("items"), Idx(i)>>, v) :
        op \in {PATCH_ADD, PATCH_REPLACE}, i \in 0..MaxArray, v \in Assigned}
    \cup {Patch(PATCH_REMOVE, <<Key("items"), Idx(i)>>, Undef) : i \in 0..MaxArray}
    \cup {Patch(op, <<Key("items"), Key("length")>>, Num(n)) :
             op \in PatchOps, n \in 0..(MaxArray + 1)}
    \cup {Patch(op, <<>>, v) :
             op \in PatchOps,
             v \in {Obj(EmptyMap), Obj([count |-> Num(1)]), Arr(<<>>), Num(1), Null}}
    \cup {Patch(op, path, Num(1)) : op \in PatchOps, path \in PatchPaths}

Assignments == [t : {"idx"}, i : 0..(MaxArray - 1), v : Assigned]

GraphValues == {Num(1)} \cup {Ref(i) : i \in 1..MaxNodes}

Node(t, children) ==
    IF t = "a" THEN [t |-> "a", s |-> children]
    ELSE [t |-> "o", e |-> [i \in 1..Len(children) |->
                              [k |-> GraphKeys[i], v |-> children[i]]]]

NodesUpTo(n) ==
    {Node(t, c) : t \in {"o", "a"}, c \in UNION {[1..m -> GraphValues] : m \in 0..n}}

Graphs ==
    {<<first>> \o rest : first \in NodesUpTo(MaxFanout),
                         rest \in [1..(MaxNodes - 1) -> NodesUpTo(InnerFanout)]}

\* The initial states given to createBinder: an object or array with up to
\* MaxFanout entries, among them a second one, which may hold a third twice
InitialStates ==
    {<<first, second, third>> :
        first \in {Node(t, c) : t \in {"o", "a"},
                     c \in UNION {[1..m -> {Num(1), Null, Ref(2)}] : m \in 0..MaxFanout}},
        second \in {Node(t, c) : t \in {"o", "a"},
                      c \in UNION {[1..m -> {Num(1), Ref(3)}] : m \in 0..MaxFanout}},
        third \in {Node("o", <<>>), Node("a", <<>>)}}

\* What the source holds before createBinder is called
PriorSources ==
    {toYDataType(v) : v \in {Obj(EmptyMap),
                             Obj([count |-> Num(1), items |-> Arr(<<Obj([id |-> Num(1)])>>)]),
                             Arr(<<>>),
                             Arr(<<Num(1), Obj([id |-> Num(1)])>>)}}

\* const MUTATIVE_YJS_ORIGIN = Symbol('mutative-yjs'): one symbol for the
\* module, shared by every binder
MUTATIVE_YJS_ORIGIN == "mutative-yjs"

St == [ydoc |-> ydoc, made |-> made, snapshot |-> snapshot, subs |-> subs,
       obs |-> obs, stack |-> stack, pending |-> pending, nref |-> nref,
       calls |-> calls, log |-> log, opts |-> opts, handles |-> handles,
       heap |-> heap, hooks |-> hooks]

Becomes(S) ==
    /\ ydoc' = S.ydoc
    /\ made' = S.made
    /\ snapshot' = S.snapshot
    /\ subs' = S.subs
    /\ obs' = S.obs
    /\ stack' = S.stack
    /\ pending' = S.pending
    /\ nref' = S.nref
    /\ calls' = S.calls
    /\ log' = S.log
    /\ opts' = S.opts
    /\ handles' = S.handles
    /\ heap' = S.heap
    /\ hooks' = S.hooks

\* A call of the application begins
Begin(S, entry) ==
    [S EXCEPT !.stack = <<[k |-> "call"]>>, !.log = <<entry>>, !.calls = @ + 1]

InOuter(stk) == \E i \in 1..Len(stk) : stk[i].k = "outer"

InCleanup(stk) == \E i \in 1..Len(stk) : stk[i].k = "dispatch"

RoundFrame(b, via, id, ref, post) ==
    [k |-> "round", b |-> b, pos |-> 0, via |-> via, id |-> id, ref |-> ref,
     post |-> post, first |-> TRUE]

DispatchFrame(tx, observers) == [k |-> "dispatch", tx |-> tx, todo |-> observers]

Tx(id, origin, events) == [id |-> id, origin |-> origin, events |-> events]

\* Yjs at the end of a transaction: nothing to dispatch without events; a
\* transaction that ends while observers are being called waits its turn.
AfterCommit(S, tx) ==
    IF tx.events = <<>> THEN S
    ELSE IF InCleanup(S.stack)
    THEN [S EXCEPT !.pending = Append(@, tx)]
    ELSE [S EXCEPT !.stack = <<DispatchFrame(tx, S.obs)>> \o @]

\* An exception leaves the listener that raised it and the forEach that
\* called the listener, and so on up to the observer call of Yjs or the call
\* of the application that is underneath.
RECURSIVE Raise(_)
Raise(stk) ==
    IF stk # <<>> /\ Head(stk).k = "round" THEN Raise(Tail(stk)) ELSE stk

\* (an observer without the origin check)
ObserverNeverSkips(origin) == FALSE

\* transaction.origin === MUTATIVE_YJS_ORIGIN: the observer returns at once
ObserverSkips(origin) == origin = MUTATIVE_YJS_ORIGIN

\* subscription.forEach((fn) => fn(get())): the argument of a listener
ListenerArg(S, b) == S.snapshot[b]

\* (an update that notifies after each patch)
UpdateRoundsPerPatch(b, id, ref, post, patches) ==
    [i \in 1..Len(patches) |-> RoundFrame(b, "update", id, ref, post)]

\* update notifies once, after the patches: one round per call
UpdateRounds(b, id, ref, post, patches) == <<RoundFrame(b, "update", id, ref, post)>>

\* (an update that stores the snapshot only after it has notified)
StoredAfterNotify(old, next) == old

\* the snapshot update stores before it notifies
StoredByUpdate(old, next) == next

(***************************************************************************)
(* options.patchesOptions as the application may pass it (the type admits  *)
(* true or a configuration object; JavaScript admits anything), by its     *)
(* typeof: absent, null, true / false, a configuration object (here {}, so *)
(* Mutative's defaults apply), a string, a number.                         *)
(***************************************************************************)
Absent == [t |-> "undefined"]

Bool(v) == [t |-> "boolean", v |-> v]

PatchesOptions ==
    {Absent, [t |-> "null"], Bool(TRUE), Bool(FALSE), [t |-> "object"],
     [t |-> "string"], [t |-> "number"]}

\* options ? (options.patchesOptions ?? true) : true
patchesOptionsInOption(o) == IF o.t \in {"undefined", "null"} THEN Bool(TRUE) ELSE o

\* (an update that accepts whatever it is given)
AcceptsAnything(o) == FALSE

\* patchesOptionsInOption !== true && !== null && typeof ... !== 'object'
RejectsOptions(o) ==
    /\ patchesOptionsInOption(o) # Bool(TRUE)
    /\ patchesOptionsInOption(o).t # "null"
    /\ patchesOptionsInOption(o).t # "object"

(***************************************************************************)
(* update(fn) of binder b (patchesOptions at its default, true).           *)
(* doApplyUpdate runs inside Y.transact(doc, ..., MUTATIVE_YJS_ORIGIN);    *)
(* Y.transact joins a transaction that is already open (and then nothing   *)
(* commits here), otherwise it commits when doApplyUpdate returns or       *)
(* raises.  A patch that raises leaves the snapshot as it was and ends the *)
(* call; otherwise the subscribers are notified.                           *)
(***************************************************************************)
\* (an update that opens a transaction per patch: one batch for each change)
transactPerPatch(S, tx) ==
    IF tx.events = <<>> THEN S
    ELSE [S EXCEPT !.stack = [i \in 1..Len(tx.events) |->
                                 DispatchFrame(Tx(tx.id, tx.origin, <<tx.events[i]>>),
                                               S.obs)] \o @]

\* Y.transact(doc, doApplyUpdate, MUTATIVE_YJS_ORIGIN): one transaction
\* around the whole loop of applyUpdate
transact(S, tx) == AfterCommit(S, tx)

\* (an update that stores what create returned even when a patch raised)
NextSnapshotDespiteThrow(S, b, thrown, changed, val) ==
    [ref |-> IF changed THEN S.nref + 1 ELSE S.snapshot[b].ref, val |-> val]

\* The snapshot object a change leaves in the binder: the one it held when
\* the call raised or nothing changed (create returns its base), else a new one
NextSnapshot(S, b, thrown, changed, val) ==
    IF thrown THEN S.snapshot[b]
    ELSE [ref |-> IF changed THEN S.nref + 1 ELSE S.snapshot[b].ref, val |-> val]

\* ... the transaction has ended (cm: its events and the tree they leave)
UpdateEnd(S, b, c, r, cm, next) ==
    LET thrown == r.thrown IN
    transact(
        [S EXCEPT !.ydoc = cm.y,
                  !.snapshot[b] = StoredByUpdate(S.snapshot[b], next),
                  !.nref = IF ~thrown /\ c.changed THEN @ + 1 ELSE @,
                  !.log = Append(@, [e |-> "update", id |-> Len(S.log) + 1, b |-> b,
                                     n |-> Len(c.patches),
                                     own |-> ~InOuter(S.stack) /\ ~Detached(S.ydoc),
                                     doc |-> ~Detached(S.ydoc),
                                     patches |-> c.patches,
                                     hooked |-> r.hooked, ran |-> r.ran,
                                     thrown |-> thrown, ref |-> next.ref,
                                     k |-> Len(cm.events),
                                     prev |-> S.snapshot[b].val, val |-> next.val,
                                     held |-> S.snapshot[b].ref,
                                     copied |-> c.copied, cfg |-> FALSE,
                                     subs |-> S.subs[b]]),
                  !.stack = IF thrown THEN Raise(@)
                            ELSE UpdateRounds(b, Len(S.log) + 1, next.ref,
                                              toJSON(cm.y), c.patches) \o @],
        Tx(Len(S.log) + 1, MUTATIVE_YJS_ORIGIN, cm.events))

\* ... the patches have been applied (r: the tree, and whether one raised)
UpdateApplied(S, b, c, r) ==
    UpdateEnd(S, b, c, r,
              IF InOuter(S.stack) \/ Detached(S.ydoc)
              THEN [events |-> <<>>, y |-> r.y] ELSE Commit(r.y),
              NextSnapshot(S, b, r.thrown, c.changed, c.next))

\* ... create has run the mutator (c: next state, patches)
UpdateCreated(S, b, c) ==
    UpdateApplied(S, b, c, applyUpdate(S.hooks[b], S.ydoc, c.patches))

\* throw new Error('patchesOptions must be a boolean or an object')
UpdateRejected(S, b) ==
    [S EXCEPT !.log = Append(@, [e |-> "update", id |-> Len(S.log) + 1, b |-> b,
                                 n |-> 0, own |-> FALSE, doc |-> ~Detached(S.ydoc),
                                 patches |-> <<>>, hooked |-> <<>>, ran |-> <<>>,
                                 thrown |-> TRUE,
                                 ref |-> S.snapshot[b].ref, k |-> 0,
                                 prev |-> S.snapshot[b].val,
                                 val |-> S.snapshot[b].val,
                                 held |-> S.snapshot[b].ref,
                                 copied |-> {}, cfg |-> TRUE, subs |-> S.subs[b]]),
              !.stack = Raise(@)]

DoUpdate(S, b, fn) ==
    IF RejectsOptions(S.opts[b]) THEN UpdateRejected(S, b)
    ELSE UpdateCreated(S, b, create(S.snapshot[b].val, fn))

\* ... the translator has run (r: next state, or raised)
ObserveTranslated(S, b, tx, r, next) ==
    [S EXCEPT !.snapshot[b] = next,
              !.nref = IF ~r.thrown /\ r.changed THEN @ + 1 ELSE @,
              !.log = Append(@, [e |-> "observe", b |-> b, tx |-> tx.id,
                                 act |-> IF r.thrown THEN "throw" ELSE "translate",
                                 ref |-> next.ref,
                                 fresh |-> ~r.thrown /\ r.changed,
                                 subs |-> S.subs[b]]),
              !.stack = (IF r.thrown THEN <<>>
                         ELSE <<RoundFrame(b, "observer", tx.id, next.ref,
                                           toJSON(S.ydoc))>>) \o @]

ObserveEvents(S, b, tx, r) ==
    ObserveTranslated(S, b, tx, r, NextSnapshot(S, b, r.thrown, r.changed, r.next))

\* source.observeDeep((events, transaction) => { ... }) by the application:
\* a deep observer that is not a binder's and only records what it is given
Watcher == "watch"

\* The observer of binder b, called by Yjs with the events of tx
DoObserve(S, b, tx) ==
    IF b = Watcher
    THEN [S EXCEPT !.log = Append(@, [e |-> "watch", tx |-> tx.id,
                                      origin |-> tx.origin, k |-> Len(tx.events),
                                      src |-> toJSON(S.ydoc)])]
    ELSE IF ObserverSkips(tx.origin)
    THEN [S EXCEPT !.log = Append(@, [e |-> "observe", b |-> b, tx |-> tx.id,
                                      act |-> "skip", ref |-> S.snapshot[b].ref,
                                      fresh |-> FALSE, subs |-> S.subs[b]])]
    ELSE ObserveEvents(S, b, tx, applyYEvents(S.snapshot[b].val, tx.events, S.ydoc))

\* if (snapshot.count < ChainK) in the chain listener
Triggers(l, arg) ==
    IsChain(l) /\ arg.val.t = "o" /\ Has(arg.val, "count")
    /\ arg.val.m["count"].t = "n" /\ arg.val.m["count"].v < ChainK

Without(s, x) == SelectSeq(s, LAMBDA y : y # x)

SetAdd(s, x) == IF \E i \in 1..Len(s) : s[i] = x THEN s ELSE Append(s, x)

\* The place of x in the set s (from 1), 0 when it is not there
Position(s, x) ==
    IF \E i \in 1..Len(s) : s[i] = x THEN CHOOSE i \in 1..Len(s) : s[i] = x ELSE 0

\* (a delete that leaves the set as it is)
subscriptionKeep(set, fn) == set

\* subscription.delete(fn)
subscriptionDelete(set, fn) == Without(set, fn)

\* A forEach that is under way goes on with the entries it has not visited:
\* when an entry it has visited leaves the set, one entry less lies behind it
ForEachAfterDelete(stk, b, at) ==
    [i \in 1..Len(stk) |->
        IF stk[i].k = "round" /\ stk[i].b = b /\ at > 0 /\ stk[i].pos >= at
        THEN [stk[i] EXCEPT !.pos = @ - 1] ELSE stk[i]]

\* () => void subscription.delete(fn), the function subscribe returned
unsubscribe(S, b, l) ==
    [S EXCEPT !.subs[b] = subscriptionDelete(@, l),
              !.handles[b][l] = "called",
              !.stack = IF Len(subscriptionDelete(S.subs[b], l)) < Len(S.subs[b])
                        THEN ForEachAfterDelete(@, b, Position(S.subs[b], l))
                        ELSE @]

\* subscribe(fn) called by a listener: subscription.add(fn), which appends
\* fn to the Set when it is not in it; the forEach that is running visits
\* what is appended before it ends
subscribe(S, b, l) == [S EXCEPT !.subs[b] = SetAdd(@, l)]

\* The listener l of binder b is called with arg
DoListener(S, b, l, arg) ==
    IF Triggers(l, arg)
    THEN DoUpdate(S, b, <<[op |-> "set", path |-> <<>>, key |-> "count",
                           v |-> Num(arg.val.m["count"].v + 1)]>>)
    ELSE IF l = "quit" /\ S.handles[b]["quit"] # "none" THEN unsubscribe(S, b, "quit")
    ELSE IF l = "join" THEN subscribe(S, b, "late")
    ELSE IF l = "drop" /\ S.handles[b]["rec"] # "none" THEN unsubscribe(S, b, "rec")
    ELSE S

(***************************************************************************)
(* What the application does.  Mutators are the recipes given to update;   *)
(* a mutator is only offered on a snapshot in which its paths resolve and  *)
(* arrays stay within MaxLen.                                              *)
(***************************************************************************)
ItemsPath == <<Key("items")>>

FirstItemPath == <<Key("items"), Idx(0)>>

Elem1 == Obj([id |-> Num(1)])

ArrLenAt(v, path) == IF PResolves(v, path, "a") THEN Len(PGet(v, path).s) ELSE 0

Room(S) ==
    /\ \A b \in S.made : ArrLenAt(S.snapshot[b].val, ItemsPath) < MaxLen
    /\ ArrLenAt(toJSON(S.ydoc), ItemsPath) < MaxLen

Mutators(S, b) ==
    LET v == S.snapshot[b].val
        hasItems == PResolves(v, ItemsPath, "a")
        some == hasItems /\ Len(PGet(v, ItemsPath).s) > 0
    IN {<<>>}
       \cup {<<[op |-> "set", path |-> <<>>, key |-> "count", v |-> Num(n)]>> : n \in 0..1}
       \cup {<<[op |-> "del", path |-> <<>>, key |-> "count"]>>}
       \cup {<<[op |-> "set", path |-> <<>>, key |-> "items", v |-> Arr(<<>>)]>>}
       \cup (IF hasItems /\ Room(S)
             THEN {<<[op |-> "push", path |-> ItemsPath, v |-> x]>> : x \in {Num(1), Elem1}}
                  \cup {<<[op |-> "set", path |-> <<>>, key |-> "count", v |-> Num(1)],
                          [op |-> "push", path |-> ItemsPath, v |-> Num(1)]>>}
             ELSE {})
       \cup (IF some
             THEN {<<[op |-> "splice", path |-> ItemsPath, start |-> 0, dc |-> 1,
                      ins |-> <<>>]>>,
                   <<[op |-> "idx", path |-> ItemsPath, i |-> 0, v |-> Null]>>}
             ELSE {})
       \cup (IF PResolves(v, FirstItemPath, "o")
             THEN {<<[op |-> "set", path |-> FirstItemPath, key |-> "id", v |-> Num(2)]>>}
             ELSE {})

\* One direct call on a shared type of the source tree
YCall(y, c) ==
    LET w == YWalk(y, c.path)
        n == w.y
    IN IF w.thrown \/ ~IsYType(n) THEN Thrown(y)
       ELSE IF c.op = "yset"
       THEN IF IsYMap(n) THEN Ok(YPut(y, c.path, YMapSet(n, c.key, toYDataType(c.v))))
            ELSE Thrown(y)
       ELSE IF c.op = "ydel"
       THEN IF IsYMap(n) THEN Ok(YPut(y, c.path, YMapDelete(n, c.key))) ELSE Thrown(y)
       ELSE IF ~IsYArr(n) THEN Thrown(y)
       ELSE LET r == IF c.op = "yins"
                     THEN YArrInsert(n, c.index, [i \in 1..Len(c.vs) |-> toYDataType(c.vs[i])])
                     ELSE YArrDelete(n, c.index, c.n)
            IN [thrown |-> r.thrown, y |-> YPut(y, c.path, r.y)]

RECURSIVE YCalls(_, _)
YCalls(y, cs) ==
    IF cs = <<>> THEN Ok(y)
    ELSE LET r == YCall(y, Head(cs)) IN
         IF r.thrown THEN r ELSE YCalls(r.y, Tail(cs))

\* The bodies of the foreign transactions: doc.transact(() => { calls })
ForeignBodies(S) ==
    LET roomy == Room(S) IN
    {<<[op |-> "yset", path |-> <<>>, key |-> "count", v |-> Num(n)]>> : n \in 0..1}
    \cup {<<[op |-> "ydel", path |-> <<>>, key |-> "count"]>>,
          <<[op |-> "yrem", path |-> ItemsPath, index |-> 0, n |-> 1]>>,
          <<[op |-> "yset", path |-> FirstItemPath, key |-> "id", v |-> Num(2)]>>}
    \cup (IF roomy
          THEN {<<[op |-> "yset", path |-> <<>>, key |-> "items", v |-> Arr(<<>>)]>>}
               \cup {<<[op |-> "yins", path |-> ItemsPath, index |-> 0, vs |-> <<x>>]>> :
                       x \in {Num(1), Elem1}}
               \cup {<<[op |-> "yset", path |-> <<>>, key |-> "count", v |-> Num(1)],
                       [op |-> "yins", path |-> ItemsPath, index |-> 0, vs |-> <<Num(1)>>]>>,
                     <<[op |-> "yins", path |-> ItemsPath, index |-> 0, vs |-> <<Num(1)>>],
                       [op |-> "yset", path |-> <<Key("items"), Idx(1)>>, key |-> "id",
                        v |-> Num(2)]>>}
          ELSE {})

\* The application is between two calls and makes at most MaxCalls of them
InSync(S, b) == S.snapshot[b].val = toJSON(S.ydoc)

Idle == stack = <<>> /\ calls < MaxCalls

\* A transaction of the application commits (cm: its events and the tree
\* they leave)
Committed(S, origin, cm) ==
    AfterCommit([S EXCEPT !.ydoc = cm.y,
                          !.log = Append(@, [e |-> "commit", id |-> Len(S.log) + 1,
                                             origin |-> origin,
                                             k |-> Len(cm.events)])],
                Tx(Len(S.log) + 1, origin, cm.events))

\* binder.update(fn)
Update(b, fn) ==
    /\ Idle
    /\ b \in made
    /\ fn \in Mutators(St, b)
    /\ Becomes(DoUpdate(Begin(St, [e |-> "op", op |-> "update", b |-> b,
                                   sync |-> InSync(St, b), fn |-> fn,
                                   before |-> snapshot[b].val]), b, fn))

\* doc.transact(() => { ... }) by the application or a peer, no origin given
Foreign(body) ==
    /\ Idle
    /\ body \in ForeignBodies(St)
    /\ ~YCalls(ydoc, body).thrown
    /\ Becomes(Committed(Begin(St, [e |-> "op", op |-> "foreign", b |-> "-",
                                    sync |-> \A b \in made : InSync(St, b),
                                    fn |-> body,
                                    synced |-> {b \in made : InSync(St, b)},
                                    before |-> snapshot]),
                         "null", Commit(YCalls(ydoc, body).y)))

\* doc.transact(() => { binder.update(fn) }, 'app'): the body
OuterUpdate(b, fn) ==
    /\ Idle
    /\ b \in made
    /\ fn \in Mutators(St, b)
    /\ LET S0 == Begin(St, [e |-> "op", op |-> "outer", b |-> b,
                            sync |-> InSync(St, b), fn |-> fn,
                            before |-> snapshot[b].val]) IN
       Becomes(DoUpdate([S0 EXCEPT !.stack = <<[k |-> "outer", origin |-> "app"]>> \o @],
                        b, fn))

\* ... and its end: the application's transaction commits
CommitOuter ==
    /\ stack # <<>>
    /\ Head(stack).k = "outer"
    /\ Becomes(Committed([St EXCEPT !.stack = Tail(@)], Head(stack).origin,
                         Commit(ydoc)))

\* Yjs calls the next deep observer with the events of the transaction
Observe ==
    /\ stack # <<>>
    /\ Head(stack).k = "dispatch"
    /\ Head(stack).todo # <<>>
    /\ LET f == Head(stack)
           S1 == [St EXCEPT !.stack = <<[f EXCEPT !.todo = Tail(@)]>> \o Tail(@)]
       IN Becomes(DoObserve(S1, Head(f.todo), f.tx))

\* every observer has been called; a transaction that waited is next
EndDispatch ==
    /\ stack # <<>>
    /\ Head(stack).k = "dispatch"
    /\ Head(stack).todo = <<>>
    /\ IF pending = <<>>
       THEN Becomes([St EXCEPT !.stack = Tail(@)])
       ELSE Becomes([St EXCEPT !.stack = <<DispatchFrame(Head(pending), obs)>> \o Tail(@),
                               !.pending = Tail(@)])

\* subscription.forEach calls the next listener
Notify ==
    /\ stack # <<>>
    /\ Head(stack).k = "round"
    /\ Head(stack).pos < Len(subs[Head(stack).b])
    /\ LET f == Head(stack)
           l == subs[f.b][f.pos + 1]
           arg == ListenerArg(St, f.b)
           entry == [e |-> "call", r |-> f.id, via |-> f.via, b |-> f.b, l |-> l,
                     ref |-> arg.ref, val |-> arg.val, cur |-> snapshot[f.b].ref,
                     stored |-> f.ref, first |-> f.pos = 0,
                     src |-> toJSON(ydoc) = f.post]
           S1 == [St EXCEPT !.stack = <<[f EXCEPT !.pos = @ + 1]>> \o Tail(@),
                            !.log = Append(@, entry)]
       IN Becomes(DoListener(S1, f.b, l, arg))

\* subscription.forEach has visited every entry
EndRound ==
    /\ stack # <<>>
    /\ Head(stack).k = "round"
    /\ Head(stack).pos >= Len(subs[Head(stack).b])
    /\ Becomes([St EXCEPT !.stack = Tail(@)])

\* The call returns to the application.  What it did is forgotten, and the
\* snapshot objects the binders hold now are the ones references are counted
\* from in the next call.
Return ==
    /\ stack # <<>>
    /\ Head(stack).k = "call"
    /\ Becomes([St EXCEPT !.stack = <<>>,
                          !.log = <<>>,
                          !.nref = 0,
                          !.snapshot = [b \in Binders |-> [snapshot[b] EXCEPT !.ref = 0]]])

\* (a subscribe that calls the listener whatever the options say)
subscribeCallsAlways(immediate) == TRUE

\* if (options?.immediate) fn(get())
subscribeCalls(immediate) == immediate

\* return () => void subscription.delete(fn): X is the state fn(get()) left
\* when called in S.  An update that fn called and that raised leaves fn
\* and subscribe; the return statement is then not reached and the
\* application holds no new function.
subscribeReturns(S, X, b, l) ==
    IF Len(X.log) > Len(S.log) /\ Last(X.log).e = "update" /\ Last(X.log).thrown
    THEN X
    ELSE [X EXCEPT !.handles[b][l] = "held"]

\* binder.subscribe(fn, {immediate}): the function that unsubscribes is
\* made by the return statement, so a listener that subscribe itself calls
\* runs before the application holds it
Subscribe(b, l, immediate) ==
    /\ Idle
    /\ b \in made
    /\ l \in FunctionsOf(b)
    /\ LET head == [e |-> "op", op |-> "subscribe", b |-> b,
                    sync |-> InSync(St, b), fn |-> <<>>, l |-> l,
                    imm |-> immediate, before |-> snapshot[b]]
           S1 == [Begin(St, head) EXCEPT !.subs[b] = SetAdd(@, l)]
           arg == ListenerArg(S1, b)
           entry == [e |-> "call", r |-> 0, via |-> "immediate", b |-> b, l |-> l,
                     ref |-> arg.ref, val |-> arg.val, cur |-> S1.snapshot[b].ref,
                     stored |-> arg.ref, first |-> TRUE, src |-> TRUE]
       IN IF subscribeCalls(immediate)
          THEN Becomes(subscribeReturns(
                   [S1 EXCEPT !.log = Append(@, entry)],
                   DoListener([S1 EXCEPT !.log = Append(@, entry)], b, l, arg), b, l))
          ELSE Becomes([S1 EXCEPT !.handles[b][l] = "held"])

\* The application calls the function subscribe returned, for the first
\* time or again
Unsubscribe(b, l) ==
    /\ Idle
    /\ b \in made
    /\ l \in FunctionsOf(b)
    /\ handles[b][l] # "none"
    /\ Becomes(unsubscribe(Begin(St, [e |-> "op", op |-> "unsubscribe", b |-> b,
                                      sync |-> InSync(St, b), fn |-> <<>>, l |-> l,
                                      was |-> handles[b][l], subs |-> subs[b]]),
                           b, l))

\* bind(source) for the second binder
Bind(b) ==
    /\ Idle
    /\ b \notin made
    /\ Becomes([St EXCEPT !.made = @ \cup {b},
                          !.snapshot[b] = [ref |-> 0, val |-> toJSON(ydoc)],
                          !.obs = Append(@, b),
                          !.calls = @ + 1])

\* (an unbind that also drops the snapshot object)
unbindDropping(S, b) ==
    [S EXCEPT !.obs = Without(@, b), !.snapshot[b].ref = @ + 1]

\* (an unbind that leaves the observer on the source)
unbindKeepsObserver(S, b) == S

\* source.unobserveDeep(observer)
unbind(S, b) == [S EXCEPT !.obs = Without(@, b)]

\* binder.unbind()
Unbind(b) ==
    /\ Idle
    /\ b \in made
    /\ \E i \in 1..Len(obs) : obs[i] = b
    /\ Becomes(unbind(Begin(St, [e |-> "op", op |-> "unbind", b |-> b,
                                 sync |-> InSync(St, b), fn |-> <<>>]), b))

(***************************************************************************)
(* The application converts the value it holds (heap, the value being its  *)
(* first node) into the document, once.  The head of the log records the   *)
(* value, whether the conversion raised, and whether the tree the call     *)
(* left holds a container created by the call.                             *)
(***************************************************************************)
Held == Ref(1)

ConvertEntry(op, thrown, y) ==
    [e |-> "op", op |-> op, b |-> "A", sync |-> InSync(St, "A"), fn |-> <<>>,
     h |-> heap, thrown |-> thrown, attached |-> HasNew(y),
     before |-> snapshot["A"].val]

Converting(entry) == [Begin(St, entry) EXCEPT !.heap = <<>>]

\* map.set('v', toYDataType(value)): no transaction opens when the
\* conversion raises
SetConverted ==
    /\ Idle
    /\ heap # <<>>
    /\ LET r == toYDataTypeSeen(heap, Held, {})
           y == IF r.thrown THEN ydoc ELSE YMapSet(ydoc, "v", r.y)
           S == Converting(ConvertEntry("toYDataType", r.thrown, y))
       IN Becomes(IF r.thrown THEN S ELSE Committed(S, "null", Commit(y)))

\* doc.transact(() => applyJsonObject(map, value)): the transaction commits
\* what the call did, raised or not
ApplyJsonObject ==
    /\ Idle
    /\ heap # <<>>
    /\ heap[1].t = "o"
    /\ LET r == applyJsonObject(ydoc, heap, heap[1].e, {}) IN
       Becomes(Committed(Converting(ConvertEntry("applyJsonObject", r.thrown, r.y)),
                         "null", Commit(r.y)))

\* doc.transact(() => applyJsonArray(map.get('items'), value))
ApplyJsonArray ==
    /\ Idle
    /\ heap # <<>>
    /\ heap[1].t = "a"
    /\ IsYArr(YGet(ydoc, Key("items")))
    /\ LET r == applyJsonArray(YGet(ydoc, Key("items")), heap, heap[1].s, {})
           y == YPut(ydoc, ItemsPath, r.y)
       IN Becomes(Committed(Converting(ConvertEntry("applyJsonArray", r.thrown, y)),
                            "null", Commit(y)))

\* What create returns for a mutator that stores or returns the held value
Stored(patch, next) ==
    [next |-> next, patches |-> <<patch>>, changed |-> TRUE, copied |-> {<<>>}]

\* binder.update((state) => { state.data = value })
UpdateAssign ==
    /\ Idle
    /\ heap # <<>>
    /\ "A" \in made
    /\ LET c == toYDataTypeSeen(heap, Held, {})
           r == Applied(c.thrown, IF c.thrown THEN ydoc ELSE YMapSet(ydoc, "data", c.y),
                        <<>>, <<>>)
           next == IF c.thrown THEN Undef
                   ELSE Obj(MapWith(snapshot["A"].val.m, "data", Unfold(heap, Held)))
       IN Becomes(UpdateApplied(
              Converting(ConvertEntry("assign", r.thrown, r.y)), "A",
              Stored(Patch(PATCH_ADD, <<Key("data")>>, Held), next), r))

\* binder.update(() => rawReturn(value)), the value an object
UpdateReturn ==
    /\ Idle
    /\ heap # <<>>
    /\ "A" \in made
    /\ heap[1].t = "o"
    /\ LET s == SetAllSeen(YMapClear(ydoc), heap, heap[1].e)
           r == Applied(s.thrown, s.y, <<>>, <<>>)
           next == IF r.thrown THEN Undef ELSE Unfold(heap, Held)
       IN Becomes(UpdateApplied(
              Converting(ConvertEntry("return", r.thrown, r.y)), "A",
              Stored(Patch(PATCH_REPLACE, <<>>, Held), next), r))

\* binder.update((state) => { state.items.splice(start, dc, ...ins) }), the
\* arguments being the ones the application holds
UpdateSplice ==
    /\ Idle
    /\ heap # <<>>
    /\ heap[1].t = "splice"
    /\ "A" \in made
    /\ LET fn == <<[op |-> "splice", path |-> ItemsPath, start |-> heap[1].start,
                    dc |-> heap[1].dc, ins |-> heap[1].ins]>>
       IN Becomes(DoUpdate(Converting([e |-> "op", op |-> "splice", b |-> "A",
                                       sync |-> InSync(St, "A"), fn |-> fn,
                                       before |-> snapshot["A"].val]), "A", fn))

\* const map = doc.getMap(...); const A = bind(map, options): an empty root,
\* binder A bound to it, nothing subscribed
InitOn(source) ==
    /\ ydoc = source
    /\ made = {"A"}
    /\ snapshot = [b \in Binders |-> [ref |-> 0, val |-> Obj(EmptyMap)]]
    /\ subs = [b \in Binders |-> <<>>]
    /\ obs = <<"A">>
    /\ stack = <<>>
    /\ pending = <<>>
    /\ nref = 0
    /\ calls = 0
    /\ log = <<>>
    /\ handles = [b \in Binders |-> [l \in FunctionsOf(b) |-> "none"]]
    /\ heap = <<>>

InitBound == InitOn(YMapOf(EmptyMap, FALSE))

Init ==
    /\ InitBound
    /\ opts = [b \in Binders |-> Absent]
    /\ hooks = [b \in Binders |-> "none"]

\* map.set('items', new Y.Array()) before bind(map); the application holds
\* a value to convert
InitConvert ==
    /\ ydoc = YMapOf([k \in {"items"} |-> YArrOf(<<>>, FALSE)], FALSE)
    /\ made = {"A"}
    /\ snapshot = [b \in Binders |->
                     [ref |-> 0,
                      val |-> IF b = "A" THEN Obj([k \in {"items"} |-> Arr(<<>>)])
                              ELSE Obj(EmptyMap)]]
    /\ subs = [b \in Binders |-> <<>>]
    /\ obs = <<"A">>
    /\ stack = <<>>
    /\ pending = <<>>
    /\ nref = 0
    /\ calls = 0
    /\ log = <<>>
    /\ handles = [b \in Binders |-> [l \in FunctionsOf(b) |-> "none"]]
    /\ heap \in Graphs
    /\ opts = [b \in Binders |-> Absent]
    /\ hooks = [b \in Binders |-> "none"]

Next ==
    \/ \E b \in Binders : \E fn \in Mutators(St, b) : Update(b, fn)
    \/ \E body \in ForeignBodies(St) : Foreign(body)
    \/ \E b \in Binders : \E fn \in Mutators(St, b) : OuterUpdate(b, fn)
    \/ CommitOuter
    \/ Observe
    \/ EndDispatch
    \/ Notify
    \/ EndRound
    \/ Return
    \/ \E b \in Binders : \E l \in Listeners : \E imm \in BOOLEAN : Subscribe(b, l, imm)
    \/ \E b \in Binders : \E l \in Listeners : Unsubscribe(b, l)
    \/ \E b \in Binders : Bind(b)
    \/ \E b \in Binders : Unbind(b)

Spec == Init /\ [][Next]_vars

(***************************************************************************)
(* One binder made with any patchesOptions, its two listeners, updates and *)
(* foreign transactions.                                                   *)
(***************************************************************************)
InitOptions ==
    /\ InitBound
    /\ \E o \in PatchesOptions :
          opts = [b \in Binders |-> IF b = "A" THEN o ELSE Absent]
    /\ hooks = [b \in Binders |-> "none"]

NextOptions ==
    \/ \E fn \in Mutators(St, "A") : Update("A", fn)
    \/ \E body \in ForeignBodies(St) : Foreign(body)
    \/ Observe
    \/ EndDispatch
    \/ Notify
    \/ EndRound
    \/ Return
    \/ \E l \in ListenerOf("A") : \E imm \in BOOLEAN : Subscribe("A", l, imm)

SpecOptions == InitOptions /\ [][NextOptions]_vars

\* createBinder(source, initialState, options): bind(source, options) and
\* binder.update(() => rawReturn(initialState))
CreateBinder ==
    /\ Idle
    /\ heap # <<>>
    /\ "A" \notin made
    /\ LET patch == Patch(PATCH_REPLACE, <<>>, Held)
           runs == applyPatch(hooks["A"], patch)
           s == IF runs THEN ApplyRootPatchSeen(ydoc, heap, Held) ELSE Ok(ydoc)
           r == Applied(s.thrown, s.y,
                        IF hooks["A"] = "none" THEN <<>> ELSE <<patch>>,
                        IF runs THEN <<patch>> ELSE <<>>)
           next == IF Cyclic(heap, Held, {}) THEN Undef ELSE Unfold(heap, Held)
           S0 == Converting(ConvertEntry("createBinder", r.thrown, r.y))
       IN Becomes(UpdateApplied(
              [S0 EXCEPT !.made = @ \cup {"A"},
                         !.snapshot["A"] = [ref |-> 0, val |-> toJSON(ydoc)],
                         !.obs = Append(@, "A")],
              "A", Stored(patch, next), r))

\* doc.transact(() => defaultApplyPatch(source, patch)), the patch being
\* the one the application holds.  The head of the log keeps the source as
\* it was (src) and as the applier left it, marks included (raw).
ApplyPatch ==
    /\ Idle
    /\ heap # <<>>
    /\ heap[1].t = "patch"
    /\ LET r == defaultApplyPatch(ydoc, heap[1].p) IN
       Becomes(Committed(Converting([e |-> "op", op |-> "patch", b |-> "A",
                                     sync |-> InSync(St, "A"), fn |-> <<>>,
                                     p |-> heap[1].p, thrown |-> r.thrown,
                                     src |-> ydoc, raw |-> r.y,
                                     before |-> snapshot["A"].val]),
                         "null", Commit(r.y)))

\* binder.update((state) => { state.items[i] = v }), i below the length
UpdateIndex ==
    /\ Idle
    /\ heap # <<>>
    /\ heap[1].t = "idx"
    /\ "A" \in made
    /\ heap[1].i < ArrLenAt(snapshot["A"].val, ItemsPath)
    /\ LET fn == <<[op |-> "idx", path |-> ItemsPath, i |-> heap[1].i,
                    v |-> heap[1].v]>>
       IN Becomes(DoUpdate(Converting([e |-> "op", op |-> "idx", b |-> "A",
                                       sync |-> InSync(St, "A"), fn |-> fn,
                                       before |-> snapshot["A"].val]), "A", fn))

(***************************************************************************)
(* One binder on a source that holds an array, and one splice of the array *)
(* inside update.                                                          *)
(***************************************************************************)
InitEdit(inputs) ==
    /\ \E a \in Choices(MaxArray, ElementsAt) :
          /\ ydoc = Clean(YMapOf([k \in {"items"} |-> toYDataType(Arr(a))], FALSE))
          /\ snapshot = [b \in Binders |->
                           [ref |-> 0,
                            val |-> IF b = "A" THEN Obj([k \in {"items"} |-> Arr(a)])
                                    ELSE Obj(EmptyMap)]]
    /\ made = {"A"}
    /\ subs = [b \in Binders |-> <<>>]
    /\ obs = <<"A">>
    /\ stack = <<>>
    /\ pending = <<>>
    /\ nref = 0
    /\ calls = 0
    /\ log = <<>>
    /\ handles = [b \in Binders |-> [l \in FunctionsOf(b) |-> "none"]]
    /\ heap \in {<<s>> : s \in inputs}
    /\ opts = [b \in Binders |-> Absent]
    /\ hooks = [b \in Binders |-> "none"]

InitSplice == InitEdit(Splices)

NextSplice ==
    \/ UpdateSplice
    \/ Observe
    \/ EndDispatch
    \/ EndRound
    \/ Return

SpecSplice == InitSplice /\ [][NextSplice]_vars

(***************************************************************************)
(* The same source, and one assignment to an index of the array.           *)
(***************************************************************************)
InitAssign == InitEdit(Assignments)

NextAssign ==
    \/ UpdateIndex
    \/ Observe
    \/ EndDispatch
    \/ EndRound
    \/ Return

SpecAssign == InitAssign /\ [][NextAssign]_vars

(***************************************************************************)
(* A source with some content, keyed or a sequence, and one createBinder.  *)
(***************************************************************************)
InitCreate ==
    /\ ydoc \in {Clean(y) : y \in PriorSources}
    /\ made = {}
    /\ snapshot = [b \in Binders |-> [ref |-> 0, val |-> Obj(EmptyMap)]]
    /\ subs = [b \in Binders |-> <<>>]
    /\ obs = <<>>
    /\ stack = <<>>
    /\ pending = <<>>
    /\ nref = 0
    /\ calls = 0
    /\ log = <<>>
    /\ handles = [b \in Binders |-> [l \in FunctionsOf(b) |-> "none"]]
    /\ heap \in InitialStates
    /\ opts = [b \in Binders |-> Absent]
    /\ hooks \in [Binders -> {"none", "delegate", "skip"}]
    /\ hooks["B"] = "none"

NextCreate ==
    \/ CreateBinder
    \/ Observe
    \/ EndDispatch
    \/ EndRound
    \/ Return

SpecCreate == InitCreate /\ [][NextCreate]_vars

(***************************************************************************)
(* The same source, and one patch given to the default applier.            *)
(***************************************************************************)
InitPatch == InitEdit({[t |-> "patch", p |-> p] : p \in PatchesTried})

NextPatch ==
    \/ ApplyPatch
    \/ Observe
    \/ EndDispatch
    \/ EndRound
    \/ Return

SpecPatch == InitPatch /\ [][NextPatch]_vars

(***************************************************************************)
(* The same source, and one transaction of a peer that makes one or two    *)
(* calls on the tree: inserts and deletes on the array, a key set in its   *)
(* first element.                                                          *)
(***************************************************************************)
ArrayCalls ==
    {[op |-> "yins", path |-> ItemsPath, index |-> i, vs |-> vs] :
        i \in 0..MaxArray,
        vs \in {<<Num(MaxArray + 1)>>, <<Num(MaxArray + 2), Elem1>>}}
    \cup {[op |-> "yrem", path |-> ItemsPath, index |-> i, n |-> n] :
             i \in 0..(MaxArray - 1), n \in 1..MaxLen}
    \cup {[op |-> "yset", path |-> FirstItemPath, key |-> "id", v |-> Num(MaxArray)]}

Transactions ==
    {<<c>> : c \in ArrayCalls} \cup {<<c, d>> : c, d \in ArrayCalls}

\* doc.transact(() => { calls }) by a peer; a call that raises ends the
\* body, and the transaction commits what the calls before it did.  The
\* head of the log keeps the events Yjs reports.
Transact ==
    /\ Idle
    /\ heap # <<>>
    /\ heap[1].t = "tx"
    /\ LET r == YCalls(ydoc, heap[1].body)
           cm == Commit(r.y)
       IN Becomes(Committed(Converting([e |-> "op", op |-> "tx", b |-> "A",
                                        sync |-> InSync(St, "A"), fn |-> heap[1].body,
                                        thrown |-> r.thrown, src |-> ydoc,
                                        raw |-> r.y, events |-> cm.events,
                                        before |-> snapshot["A"].val]),
                            "null", cm))

InitDelta == InitEdit({[t |-> "tx", body |-> body] : body \in Transactions})

NextDelta ==
    \/ Transact
    \/ Observe
    \/ EndDispatch
    \/ EndRound
    \/ Return

SpecDelta == InitDelta /\ [][NextDelta]_vars

(***************************************************************************)
(* The same source with subscribers, and one update whose recipe assigns   *)
(* to one or two indexes of the array or sets a key of the root: null      *)
(* assigned over an element that is a Y.Map makes its patch raise, after   *)
(* the patches before it were applied.                                     *)
(***************************************************************************)
RecipeSteps ==
    {[op |-> "idx", path |-> ItemsPath, i |-> i, v |-> v] :
        i \in 0..(MaxArray - 1), v \in {Null, Num(MaxArray)}}
    \cup {[op |-> "set", path |-> <<>>, key |-> "count", v |-> Num(1)]}

Recipes ==
    {<<a>> : a \in RecipeSteps}
    \cup {<<a, b>> : a \in RecipeSteps,
                     b \in {s \in RecipeSteps : s.op = "idx" /\ s.v = Null}}

\* binder.update(recipe), every index the recipe assigns to being below
\* the length of the array
UpdateRecipe ==
    /\ Idle
    /\ heap # <<>>
    /\ heap[1].t = "fn"
    /\ "A" \in made
    /\ \A k \in 1..Len(heap[1].fn) :
          heap[1].fn[k].op = "idx"
          => heap[1].fn[k].i < ArrLenAt(snapshot["A"].val, ItemsPath)
    /\ Becomes(DoUpdate(Converting([e |-> "op", op |-> "recipe", b |-> "A",
                                    sync |-> InSync(St, "A"), fn |-> heap[1].fn,
                                    before |-> snapshot["A"].val]),
                        "A", heap[1].fn))

InitThrow == InitEdit({[t |-> "fn", fn |-> fn] : fn \in Recipes})

NextThrow ==
    \/ UpdateRecipe
    \/ \E l \in ListenerOf("A") : Subscribe("A", l, FALSE)
    \/ Observe
    \/ EndDispatch
    \/ Notify
    \/ EndRound
    \/ Return

SpecThrow == InitThrow /\ [][NextThrow]_vars

(***************************************************************************)
(* One binder whose listeners subscribe another listener when called.      *)
(***************************************************************************)
NextJoin ==
    \/ \E fn \in Mutators(St, "A") : Update("A", fn)
    \/ \E body \in ForeignBodies(St) : Foreign(body)
    \/ Observe
    \/ EndDispatch
    \/ Notify
    \/ EndRound
    \/ Return
    \/ \E l \in Joiners : \E imm \in BOOLEAN : Subscribe("A", l, imm)

SpecJoin == Init /\ [][NextJoin]_vars

(***************************************************************************)
(* One binder, and one conversion of a value into the document.            *)
(***************************************************************************)
NextConvert ==
    \/ SetConverted
    \/ ApplyJsonObject
    \/ ApplyJsonArray
    \/ UpdateAssign
    \/ UpdateReturn
    \/ Observe
    \/ EndDispatch
    \/ EndRound
    \/ Return

SpecConvert == InitConvert /\ [][NextConvert]_vars

(***************************************************************************)
(* One binder made with any applyPatch hook, its two listeners, updates    *)
(* and foreign transactions.                                               *)
(***************************************************************************)
InitHook ==
    /\ InitBound
    /\ opts = [b \in Binders |-> Absent]
    /\ \E hook \in Hooks :
          hooks = [b \in Binders |-> IF b = "A" THEN hook ELSE "none"]

SpecHook == InitHook /\ [][NextOptions]_vars

(***************************************************************************)
(* One binder on a Y.Map of a document, or on a Y.Map that was created and *)
(* never added to one (const map = new Y.Map(); bind(map)), its listeners  *)
(* and updates.                                                            *)
(***************************************************************************)
InitDetached ==
    /\ \E source \in {YMapOf(EmptyMap, FALSE), NewYMap} : InitOn(source)
    /\ opts = [b \in Binders |-> Absent]
    /\ hooks = [b \in Binders |-> "none"]

NextDetached ==
    \/ \E fn \in Mutators(St, "A") : Update("A", fn)
    \/ Observe
    \/ EndDispatch
    \/ Notify
    \/ EndRound
    \/ Return
    \/ \E l \in ListenerOf("A") : \E imm \in BOOLEAN : Subscribe("A", l, imm)

SpecDetached == InitDetached /\ [][NextDetached]_vars

(***************************************************************************)
(* One binder and a deep observer of the application on the same source.   *)
(***************************************************************************)
InitWatch ==
    /\ ydoc = YMapOf(EmptyMap, FALSE)
    /\ made = {"A"}
    /\ snapshot = [b \in Binders |-> [ref |-> 0, val |-> Obj(EmptyMap)]]
    /\ subs = [b \in Binders |-> <<>>]
    /\ obs \in {<<"A", Watcher>>, <<Watcher, "A">>}
    /\ stack = <<>>
    /\ pending = <<>>
    /\ nref = 0
    /\ calls = 0
    /\ log = <<>>
    /\ handles = [b \in Binders |-> [l \in FunctionsOf(b) |-> "none"]]
    /\ heap = <<>>
    /\ opts = [b \in Binders |-> Absent]
    /\ hooks = [b \in Binders |-> "none"]

SpecWatch == InitWatch /\ [][NextOptions]_vars

(***************************************************************************)
(* One binder whose listeners unsubscribe during a notification.           *)
(***************************************************************************)
NextQuit ==
    \/ \E fn \in Mutators(St, "A") : Update("A", fn)
    \/ \E body \in ForeignBodies(St) : Foreign(body)
    \/ Observe
    \/ EndDispatch
    \/ Notify
    \/ EndRound
    \/ Return
    \/ \E l \in Quitters : \E imm \in BOOLEAN : Subscribe("A", l, imm)
    \/ \E l \in Quitters : Unsubscribe("A", l)

SpecQuit == Init /\ [][NextQuit]_vars

(***************************************************************************)
(* Reading the log of the running call                                     *)
(***************************************************************************)
Done == stack = <<[k |-> "call"]>>

Bound(b) == b \in made /\ \E i \in 1..Len(obs) : obs[i] = b

Registered(b, l) == \E i \in 1..Len(subs[b]) : subs[b][i] = l

CallsOf(via, id, b, l) ==
    {j \in 1..Len(log) : /\ log[j].e = "call"
                         /\ log[j].via = via
                         /\ log[j].r = id
                         /\ log[j].b = b
                         /\ log[j].l = l}

RoundOpen(via, id, b) ==
    \E i \in 1..Len(stack) : /\ stack[i].k = "round"
                             /\ stack[i].via = via
                             /\ stack[i].id = id
                             /\ stack[i].b = b

Translated(b, tx) ==
    {j \in 1..Len(log) : /\ log[j].e = "observe"
                         /\ log[j].b = b
                         /\ log[j].tx = tx
                         /\ log[j].act # "skip"}

\* C1: every update call that returns normally on a binder of a document
\* invokes each registered subscriber exactly once, whatever the number of
\* patches (never more than once while the round runs, exactly once when it
\* is over), and the observer of that binder does not run the translator on
\* the transaction the call opened.
C1_UpdateNotifiesOnce ==
    \A i \in 1..Len(log) :
        (log[i].e = "update" /\ ~log[i].thrown) =>
            /\ \A l \in Listeners :
                  Cardinality(CallsOf("update", log[i].id, log[i].b, l)) <= 1
            /\ ~RoundOpen("update", log[i].id, log[i].b) =>
                  \A l \in Listeners :
                      Cardinality(CallsOf("update", log[i].id, log[i].b, l))
                          = IF Registered(log[i].b, l) THEN 1 ELSE 0
            /\ log[i].own => Translated(log[i].b, log[i].id) = {}

\* an update with two patches and events has returned on a binder with two
\* subscribers, both invoked, and the binder's observer skipped its events
C1_Witness ==
    /\ Done
    /\ \E i \in 1..Len(log) :
          /\ log[i].e = "update" /\ ~log[i].thrown /\ log[i].own
          /\ log[i].n >= 2 /\ log[i].k >= 1
          /\ Len(subs[log[i].b]) = 2
          /\ \A l \in ListenerOf(log[i].b) :
                Cardinality(CallsOf("update", log[i].id, log[i].b, l)) = 1
          /\ \E j \in 1..Len(log) : /\ log[j].e = "observe"
                                    /\ log[j].b = log[i].b
                                    /\ log[j].tx = log[i].id
                                    /\ log[j].act = "skip"

\* C2 as stated: two binders bound to the same source hold snapshots equal
\* to the source's projection whenever the application is between calls.
C2_Converge ==
    (stack = <<>> /\ Bound("A") /\ Bound("B")) =>
        /\ snapshot["A"].val = toJSON(ydoc)
        /\ snapshot["B"].val = toJSON(ydoc)

\* C3 as stated: when update has returned normally on a bound binder, get()
\* equals the projection of the source.
C3_UpdateProjection ==
    (Done /\ log[1].op = "update" /\ ~log[2].thrown /\ Bound(log[1].b)) =>
        snapshot[log[1].b].val = toJSON(ydoc)

\* C4 as stated: when a foreign transaction has been dispatched, get() of
\* every bound binder equals the projection of the source.
C4_ForeignProjection ==
    (Done /\ log[1].op = "foreign") =>
        \A b \in Binders : Bound(b) => snapshot[b].val = toJSON(ydoc)

\* C5 as stated: no change made through update modifies the snapshot of its
\* binder twice, once stored by update and once more as a new snapshot the
\* observer translates from the events of the transaction that carried the
\* change (the one update opened, or the one of the caller that update
\* joined).
C5_OnePath ==
    \A i \in 1..Len(log) : \A j \in 1..Len(log) :
        (/\ log[i].e = "update" /\ ~log[i].thrown /\ log[i].n > 0
         /\ log[j].e = "observe" /\ log[j].b = log[i].b /\ log[j].act = "translate"
         /\ log[j].fresh)
        => ~(IF log[i].own THEN log[j].tx = log[i].id
             ELSE log[log[j].tx].e = "commit" /\ log[log[j].tx].origin = "app"
                  /\ i < log[j].tx)

\* C6 as stated: a foreign transaction with K >= 1 events gives every bound
\* binder exactly one new snapshot and every registered subscriber exactly
\* one invocation before the call returns.
C6_OneSnapshotOneNotification ==
    (Done /\ log[1].op = "foreign" /\ log[2].k >= 1) =>
        \A b \in Binders : Bound(b) =>
            /\ Cardinality({j \in Translated(b, 2) :
                              log[j].act = "translate" /\ log[j].fresh}) = 1
            /\ \A l \in Listeners : Registered(b, l) =>
                  Cardinality(CallsOf("observer", 2, b, l)) = 1

\* C7: the first subscriber of a round is invoked after the snapshot of the
\* change has been stored (it receives the stored object) and with the
\* source holding every change of the update call or transaction; inside
\* every listener get() is the object the listener received.
C7_Ordering ==
    \A j \in 1..Len(log) :
        log[j].e = "call" =>
            /\ log[j].cur = log[j].ref
            /\ log[j].first => (log[j].ref = log[j].stored /\ log[j].src)

\* a foreign transaction with two events was translated for a subscriber
\* that then called update, and both rounds invoked their first listener
C7_Witness ==
    /\ Done
    /\ log[1].op = "foreign"
    /\ log[2].k >= 2
    /\ \E j \in 1..Len(log) : /\ log[j].e = "call" /\ log[j].via = "observer"
                              /\ log[j].first /\ log[j].ref > 0
    /\ \E j \in 1..Len(log) : /\ log[j].e = "call" /\ log[j].via = "update"
                              /\ log[j].first /\ log[j].ref > 1

\* C8 as stated: every listener invoked in the round of a change receives
\* the snapshot that change produced.
C8_ReceivesS ==
    \A j \in 1..Len(log) : log[j].e = "call" => log[j].ref = log[j].stored

\* C10: the object get() returns changes only in a step in which update
\* stores its result for that binder or the observer of that binder stores a
\* translation; subscribe, unsubscribe, an immediate notification and unbind
\* leave it alone (a return only renumbers the objects held).
C10_GetStable ==
    [][\A b \in made :
          IF stack # <<>> /\ stack' = <<>>
          THEN snapshot'[b].val = snapshot[b].val
          ELSE snapshot'[b] # snapshot[b] =>
                  \E i \in (Len(log) + 1)..Len(log') :
                      \/ log'[i].e = "update" /\ log'[i].b = b /\ ~log'[i].thrown
                      \/ log'[i].e = "observe" /\ log'[i].b = b
                         /\ log'[i].act = "translate"]_vars

\* after an unbind, a subscribe with immediate notification has run on a
\* binder whose snapshot earlier calls had changed: get() is still the
\* object held before
C10_Witness ==
    /\ Done
    /\ log[1].op = "subscribe"
    /\ ~Bound(log[1].b)
    /\ snapshot[log[1].b].ref = 0
    /\ snapshot[log[1].b].val # Obj(EmptyMap)
    /\ \E j \in 1..Len(log) : log[j].e = "call" /\ log[j].via = "immediate"
                              /\ log[j].ref = 0

\* C14: subscribe(fn, {immediate: true}) invokes fn once before it returns,
\* first of all that happens in the call and so before any invocation of fn
\* that a change triggers, with the object get() returned when subscribe was
\* called; subscribe without immediate invokes nothing.
C14_ImmediateOnce ==
    (log # <<>> /\ log[1].op = "subscribe") =>
        IF log[1].imm
        THEN /\ Len(log) >= 2
             /\ log[2].e = "call" /\ log[2].via = "immediate"
             /\ log[2].l = log[1].l /\ log[2].b = log[1].b
             /\ log[2].ref = log[1].before.ref /\ log[2].val = log[1].before.val
             /\ Cardinality({j \in 1..Len(log) :
                                log[j].e = "call" /\ log[j].via = "immediate"}) = 1
        ELSE \A j \in 1..Len(log) : log[j].e # "call"

\* subscribe with immediate has returned for the chain listener, which was
\* invoked at once and again by the update it made
C14_Witness ==
    /\ Done
    /\ log[1].op = "subscribe" /\ log[1].imm /\ log[1].l = "chain"
    /\ log[2].via = "immediate"
    /\ \E j \in 3..Len(log) : log[j].e = "call" /\ log[j].l = "chain"
                               /\ log[j].via = "update"

ListenerCalls(b, l) ==
    {j \in 1..Len(log) : log[j].e = "call" /\ log[j].b = b /\ log[j].l = l}

Range(s) == {s[i] : i \in 1..Len(s)}

\* C15: a listener whose unsubscribe function has been called (and that has
\* not been subscribed again) is out of the set and is invoked in no later
\* call, while every listener still in the set is invoked once in the
\* round of each update and of each translated transaction; calling the
\* function again returns normally and leaves the set as it was.
C15_Unsubscribed ==
    /\ \A b \in made : \A l \in ListenerOf(b) :
          handles[b][l] = "called" => (~Registered(b, l) /\ ListenerCalls(b, l) = {})
    /\ \A i \in 1..Len(log) :
          /\ (log[i].e = "update" /\ ~log[i].thrown
               /\ ~RoundOpen("update", log[i].id, log[i].b)) =>
                 \A l \in ListenerOf(log[i].b) : Registered(log[i].b, l) =>
                     Cardinality(CallsOf("update", log[i].id, log[i].b, l)) = 1
          /\ (log[i].e = "observe" /\ log[i].act = "translate"
               /\ ~RoundOpen("observer", log[i].tx, log[i].b)) =>
                 \A l \in ListenerOf(log[i].b) : Registered(log[i].b, l) =>
                     Cardinality(CallsOf("observer", log[i].tx, log[i].b, l)) = 1
    /\ (log # <<>> /\ log[1].op = "unsubscribe") =>
          /\ Len(log) = 1
          /\ stack = <<[k |-> "call"]>>
          /\ subs[log[1].b] = IF log[1].was = "called" THEN log[1].subs
                              ELSE Without(log[1].subs, log[1].l)

\* an update has returned on a binder with one listener unsubscribed and
\* another still subscribed, which was invoked
C15_Witness ==
    /\ Done
    /\ log[1].op = "update"
    /\ ~log[2].thrown
    /\ log[2].k >= 1
    /\ \E l \in ListenerOf(log[1].b) : handles[log[1].b][l] = "called"
    /\ \E l \in ListenerOf(log[1].b) :
          /\ Registered(log[1].b, l)
          /\ Cardinality(CallsOf("update", 2, log[1].b, l)) = 1

\* C16 as stated: every listener that was in the set when a round of
\* notifications began is invoked in that round, also when a listener
\* invoked earlier in the round has called its unsubscribe function.
C16_RemovalDeferred ==
    \A i \in 1..Len(log) :
        /\ (log[i].e = "update" /\ ~log[i].thrown
             /\ ~RoundOpen("update", log[i].id, log[i].b)) =>
               \A l \in Range(log[i].subs) :
                   CallsOf("update", log[i].id, log[i].b, l) # {}
        /\ (log[i].e = "observe" /\ log[i].act = "translate"
             /\ ~RoundOpen("observer", log[i].tx, log[i].b)) =>
               \A l \in Range(log[i].subs) :
                   CallsOf("observer", log[i].tx, log[i].b, l) # {}

\* C17: when unbind() has returned the observer of the binder is off the
\* source; a binder whose observer is off is not called by Yjs for any
\* transaction, so a foreign transaction leaves the object its get() returns
\* untouched and invokes none of its subscribers, and the other binder, in
\* step with the source, translates the transaction once and invokes each
\* of its own subscribers exactly once for it and for each of its updates.
C17_Unbound ==
    /\ (log # <<>> /\ log[1].op = "unbind") => ~Bound(log[1].b)
    /\ \A j \in 1..Len(log) : log[j].e = "observe" => Bound(log[j].b)
    /\ (log # <<>> /\ log[1].op = "foreign") =>
          \A b \in made : ~Bound(b) =>
              /\ snapshot[b] = log[1].before[b]
              /\ \A l \in ListenerOf(b) : ListenerCalls(b, l) = {}
    /\ (Done /\ log[1].op = "foreign" /\ log[2].k >= 1) =>
          \A b \in log[1].synced : (Bound(b) /\ \E a \in made : ~Bound(a)) =>
              /\ Cardinality(Translated(b, 2)) = 1
              /\ \A l \in ListenerOf(b) : Registered(b, l) =>
                    Cardinality(CallsOf("observer", 2, b, l)) = 1
    /\ (Done /\ log[1].op = "update" /\ ~log[2].thrown) =>
          \A l \in ListenerOf(log[1].b) : Registered(log[1].b, l) =>
              Cardinality(CallsOf("update", 2, log[1].b, l)) = 1

\* the first binder was released, a second one bound and subscribed to; a
\* foreign transaction has changed the second binder only and invoked its
\* subscriber once
C17_Witness ==
    /\ Done
    /\ log[1].op = "foreign"
    /\ log[2].k >= 1
    /\ ~Bound("A")
    /\ Bound("B")
    /\ Registered("B", "recB")
    /\ Cardinality(CallsOf("observer", 2, "B", "recB")) = 1
    /\ snapshot["B"].val = toJSON(ydoc)
    /\ snapshot["A"].val # toJSON(ydoc)

NeitherBooleanNorObject(o) == o.t \notin {"boolean", "object"}

DispatchCount(stk) == Cardinality({i \in 1..Len(stk) : stk[i].k = "dispatch"})

RoundCount(stk) == Cardinality({i \in 1..Len(stk) : stk[i].k = "round"})

\* C12: on a binder made with a patchesOptions that is neither a boolean nor
\* an object (a string, a number), every update call, from the application
\* or from a listener, raises the configuration error and nothing else
\* happens in it: the snapshot object and the source stay what they were, no
\* transaction ends or waits, no observer is called, no round of
\* notifications begins and no listener is invoked.
C12_InvalidOptionsRejected ==
    [][\A i \in (Len(log) + 1)..Len(log') :
          (log'[i].e = "update"
           /\ NeitherBooleanNorObject(patchesOptionsInOption(opts[log'[i].b]))) =>
              /\ log'[i].thrown
              /\ log'[i].cfg
              /\ log'[i].n = 0
              /\ i = Len(log')
              /\ ydoc' = ydoc
              /\ snapshot' = snapshot
              /\ pending' = pending
              /\ DispatchCount(stack') <= DispatchCount(stack)
              /\ RoundCount(stack') <= RoundCount(stack)]_vars

\* update has raised on a binder made with a string for patchesOptions, with
\* a listener subscribed and a snapshot that foreign changes had filled
C12_Witness ==
    /\ Done
    /\ log[1].op = "update"
    /\ log[1].fn # <<>>
    /\ log[2].e = "update" /\ log[2].cfg
    /\ opts["A"].t = "string"
    /\ Registered("A", "rec")
    /\ snapshot["A"].val # Obj(EmptyMap)
    /\ snapshot["A"].val = toJSON(ydoc)

\* C13 as stated: update raises the configuration error exactly when the
\* resolved setting is neither a boolean nor a configuration object.
C13_RaisesExactlyWhenInvalid ==
    \A i \in 1..Len(log) :
        log[i].e = "update" =>
            (log[i].cfg <=>
                NeitherBooleanNorObject(patchesOptionsInOption(opts[log[i].b])))

\* Where two snapshots differ: the path of the deepest container outside of
\* which they are equal.
RECURSIVE DiffPath(_, _, _)
DiffPath(u, v, path) ==
    LET inner(a, b) == a.t = b.t /\ a.t \in {"o", "a"}
        ks == IF u.t = "o" /\ v.t = "o" /\ DOMAIN u.m = DOMAIN v.m
              THEN {k \in DOMAIN u.m : u.m[k] # v.m[k]} ELSE {}
        is == IF u.t = "a" /\ v.t = "a" /\ Len(u.s) = Len(v.s)
              THEN {i \in 1..Len(u.s) : u.s[i] # v.s[i]} ELSE {}
    IN IF Cardinality(ks) = 1 /\ \A k \in ks : inner(u.m[k], v.m[k])
       THEN LET k == CHOOSE x \in ks : TRUE IN
            DiffPath(u.m[k], v.m[k], Append(path, Key(k)))
       ELSE IF Cardinality(is) = 1 /\ \A i \in is : inner(u.s[i], v.s[i])
       THEN LET i == CHOOSE x \in is : TRUE IN
            DiffPath(u.s[i], v.s[i], Append(path, Idx(i - 1)))
       ELSE path

IsPrefix(p, q) == Len(p) <= Len(q) /\ SubSeq(q, 1, Len(p)) = p

\* The paths of the values at or above the one at path P, up to the root
AtOrAbove(P) == {q \in {SubSeq(P, 1, n) : n \in 0..Len(P)} : IsPrefix(q, P)}

\* C11: when update has changed the snapshot, and P is the path of the
\* subtree the change is confined to, the containers update replaced by new
\* objects are the ones at or above P and, besides them, only containers
\* inside P whose content changed; every other container of the new snapshot
\* is the object the previous snapshot held, and the previous snapshot holds
\* the value it held before the call.
C11_StructuralSharing ==
    \A i \in 1..Len(log) :
        (log[i].e = "update" /\ ~log[i].thrown /\ log[i].val # log[i].prev) =>
            LET P == DiffPath(log[i].prev, log[i].val, <<>>) IN
            /\ AtOrAbove(P) \subseteq log[i].copied
            /\ \A q \in log[i].copied :
                  /\ IsPrefix(q, P) \/ IsPrefix(P, q)
                  /\ PWalk(log[i].val, q).y # PWalk(log[i].prev, q).y
            /\ (i = 2 /\ log[1].e = "op") => log[i].prev = log[1].before

\* an update has changed one property of an object held in an array: the
\* object, the array and the root are new objects, nothing else
C11_Witness ==
    /\ Done
    /\ \E i \in 1..Len(log) :
          /\ log[i].e = "update" /\ ~log[i].thrown
          /\ DiffPath(log[i].prev, log[i].val, <<>>) = FirstItemPath
          /\ log[i].copied = AtOrAbove(FirstItemPath)
          /\ Len(PGet(log[i].val, ItemsPath).s) = 2

(***************************************************************************)
(* Conversion of values that share or contain themselves.                  *)
(***************************************************************************)
Converts(ops) == log # <<>> /\ log[1].e = "op" /\ log[1].op \in ops

\* C18: converting a value that contains a self-reference, via update, via
\* applyJsonObject or via applyJsonArray, raises the circular reference
\* error, and the call leaves no container it created attached to the
\* document.
C18_CircularLeavesNothing ==
    (Converts({"assign", "return", "applyJsonObject", "applyJsonArray"})
     /\ Cyclic(log[1].h, Held, {}))
    => (log[1].thrown /\ ~log[1].attached)

\* C19: for every value free of cycles, values in which one object or array
\* is reachable by two paths included, toYDataType succeeds, and the plain
\* value of the result, attached to the document, deep-equals the value.
C19_RoundTrip ==
    (Converts({"toYDataType"}) /\ ~Cyclic(log[1].h, Held, {}))
    => /\ ~log[1].thrown
       /\ toPlainValue(YGet(ydoc, Key("v"))) = Unfold(log[1].h, Held)

(***************************************************************************)
(* Sequence edits.                                                         *)
(***************************************************************************)
ItemsOf(v) == PGet(v, ItemsPath).s

\* C20: a splice of an array of the bound tree inside update leaves, in the
\* snapshot, the array JavaScript's splice leaves, and the projection of the
\* source equals the snapshot.
C20_SpliceFidelity ==
    Converts({"splice"})
    => /\ ~log[2].thrown
       /\ ItemsOf(snapshot["A"].val)
            = JsSplice(ItemsOf(log[1].before), log[1].fn[1].start, log[1].fn[1].dc,
                       log[1].fn[1].ins)
       /\ toJSON(ydoc) = snapshot["A"].val

\* The index assignment of the running call changes an element that holds
\* an object into a value of one of the kinds
AssignsOverObject(kinds) ==
    /\ Converts({"idx"})
    /\ ItemsOf(log[1].before)[log[1].fn[1].i + 1].t = "o"
    /\ log[1].fn[1].v.t \in kinds
    /\ log[1].fn[1].v # ItemsOf(log[1].before)[log[1].fn[1].i + 1]

\* C21: an update that assigns null, a number or an array to an index that
\* holds an object completes; the snapshot then holds that value at the
\* index and the other elements as before, and the projection of the source
\* equals the snapshot.
C21_ElementReplaced ==
    AssignsOverObject({"null", "n", "a"})
    => /\ ~log[2].thrown
       /\ ItemsOf(snapshot["A"].val)
            = [ItemsOf(log[1].before) EXCEPT ![log[1].fn[1].i + 1] = log[1].fn[1].v]
       /\ toJSON(ydoc) = snapshot["A"].val

(***************************************************************************)
(* createBinder.                                                           *)
(***************************************************************************)
\* the initial state is free of cycles and of the kind of the source
Creates ==
    /\ Converts({"createBinder"})
    /\ ~Cyclic(log[1].h, Held, {})
    /\ (log[1].h[1].t = "o") = IsYMap(ydoc)

\* C22: createBinder(source, initialState, options) returns a binder whose
\* get() deep-equals initialState, whatever the source held; the projection
\* of the source deep-equals initialState too (the hook, when one is given,
\* delegating); a hook given in the options is called with the patch of the
\* initial state.
C22_CreateBinder ==
    Creates
    => /\ ~log[1].thrown
       /\ snapshot["A"].val = Unfold(log[1].h, Held)
       /\ hooks["A"] \in {"none", "delegate"}
            => toJSON(ydoc) = Unfold(log[1].h, Held)
       /\ hooks["A"] # "none"
            => log[2].hooked = <<Patch(PATCH_REPLACE, <<>>, Held)>>

(***************************************************************************)
(* The applyPatch hook.                                                    *)
(***************************************************************************)
\* C23: an update of a binder made with a hook calls the hook once per
\* patch, in the order of the patch list (up to the patch that raises, if
\* one does), and the default applier runs for exactly the patches the hook
\* delegates; with the hook that delegates every patch, the update raises
\* or not, and leaves the source, as the loop without a hook does.
C23_HookPerPatch ==
    [][\A i \in (Len(log) + 1)..Len(log') :
          (log'[i].e = "update" /\ ~log'[i].cfg /\ hooks[log'[i].b] # "none") =>
              LET u == log'[i]
                  plain == ApplyPatches(ydoc, u.patches)
              IN /\ IsPrefix(u.hooked, u.patches)
                 /\ ~u.thrown => u.hooked = u.patches
                 /\ u.ran = SelectSeq(u.hooked,
                                      LAMBDA p : Delegates(hooks[u.b], p))
                 /\ hooks[u.b] = "delegate" =>
                       /\ u.thrown = plain.thrown
                       /\ ydoc' = Commit(plain.y).y
                       /\ ~u.thrown => snapshot'[u.b].val = u.val]_vars

\* an update of two patches has returned on a binder whose hook skips the
\* patches of 'count': the hook was called with both, the default applier
\* ran for the other only
C23_Witness ==
    /\ Done
    /\ log[1].op = "update"
    /\ hooks["A"] = "protect"
    /\ log[2].e = "update" /\ ~log[2].thrown
    /\ Len(log[2].hooked) = 2
    /\ Len(log[2].ran) = 1
    /\ log[2].hooked[2].path = <<Key("count")>>
    /\ log[2].ran[1] = log[2].hooked[1]

(***************************************************************************)
(* A source outside a document.                                            *)
(***************************************************************************)
\* the source was created and never added to a document
NoDocument == ydoc.t = "ymap" /\ "doc" \in DOMAIN ydoc

UpdatesOfLog == {i \in 1..Len(log) : log[i].e = "update" /\ ~log[i].cfg}

\* C24: an update on a source without a document applies the patches with
\* no transaction (none ends, none waits, no observer is called, the source
\* stays outside), stores the new snapshot and starts the one round that
\* invokes each registered subscriber exactly once; on a source of a
\* document the same update opens one transaction of its own, and what
\* that transaction hands to the observers carries the origin of the binder.
C24_WithAndWithoutDocument ==
    /\ [](\A i \in UpdatesOfLog :
            (~log[i].thrown /\ ~RoundOpen("update", log[i].id, log[i].b)) =>
               \A l \in Listeners :
                   Cardinality(CallsOf("update", log[i].id, log[i].b, l))
                       = IF Registered(log[i].b, l) THEN 1 ELSE 0)
    /\ [][\A i \in (Len(log) + 1)..Len(log') :
            (log'[i].e = "update" /\ ~log'[i].cfg) =>
               LET u == log'[i] IN
               /\ ~u.thrown =>
                     /\ snapshot'[u.b].val = u.val
                     /\ RoundCount(stack') = RoundCount(stack) + 1
               /\ IF NoDocument
                  THEN /\ ~u.own
                       /\ u.k = 0
                       /\ NoDocument'
                       /\ pending' = pending
                       /\ DispatchCount(stack') = DispatchCount(stack)
                       /\ \A j \in 1..Len(log') : log'[j].e \notin {"commit", "observe"}
                  ELSE /\ u.own
                       /\ u.k > 0 =>
                             \/ /\ Head(stack').k = "dispatch"
                                /\ Head(stack').tx.origin = MUTATIVE_YJS_ORIGIN
                                /\ Head(stack').tx.id = u.id
                             \/ /\ pending' # <<>>
                                /\ Last(pending').origin = MUTATIVE_YJS_ORIGIN
                                /\ Last(pending').id = u.id]_vars

\* on a source without a document, an update made by a listener has
\* returned: two updates, both stored, the subscriber invoked for each
C24_Witness ==
    /\ Done
    /\ NoDocument
    /\ Cardinality(UpdatesOfLog) >= 2
    /\ \A i \in UpdatesOfLog : ~log[i].thrown
    /\ Registered("A", "chain")
    /\ snapshot["A"].val # Obj(EmptyMap)

(***************************************************************************)
(* Other observers of the source.                                          *)
(***************************************************************************)
Batches(id) == {j \in 1..Len(log) : log[j].e = "watch" /\ log[j].tx = id}

\* C25: the patches of one update call are applied inside one transaction:
\* a deep observer of the source that is not the binder's is called at most
\* once for the call, and, when the call is over, exactly once if the call
\* changed the tree and not at all otherwise; the batch it is given holds
\* all the events of the call and carries the origin of the binder.
C25_OneBatchPerUpdate ==
    \A i \in UpdatesOfLog :
        /\ Cardinality(Batches(log[i].id)) <= 1
        /\ \A j \in Batches(log[i].id) :
              log[j].k = log[i].k /\ log[j].origin = MUTATIVE_YJS_ORIGIN
        /\ Done => Cardinality(Batches(log[i].id)) = IF log[i].k > 0 THEN 1 ELSE 0

\* an update of two patches that changed two containers has returned, and
\* the other observer was given the two events in one batch
C25_Witness ==
    /\ Done
    /\ log[1].op = "update"
    /\ log[2].e = "update" /\ log[2].n = 2 /\ log[2].k = 2
    /\ \E j \in Batches(log[2].id) : log[j].k = 2

(***************************************************************************)
(* The default applier, patch by patch.                                    *)
(***************************************************************************)
Patched == Converts({"patch"})

ItemsBefore == YGet(log[1].src, Key("items"))

ItemsAfter == YGet(log[1].raw, Key("items"))

\* the patch of the running call is op at items[i], i below the length
AtIndex(op) ==
    /\ Patched
    /\ log[1].p.op = op
    /\ Len(log[1].p.path) = 2
    /\ log[1].p.path[1] = Key("items")
    /\ IsIdx(log[1].p.path[2])
    /\ log[1].p.path[2].idx < YLen(ItemsBefore)

\* C26: a replace at index i of a sequence container whose element i is a
\* keyed container, by a mapping, keeps the item and the container at i
\* (neither is one the transaction created, nothing is deleted or inserted
\* in the sequence), leaves that container with exactly the keys and values
\* of the replacement, and leaves every other element as it was.
C26_ReplacedInPlace ==
    (AtIndex(PATCH_REPLACE)
     /\ IsYMap(YGet(ItemsBefore, log[1].p.path[2]))
     /\ log[1].p.value.t = "o")
    => LET i == log[1].p.path[2].idx + 1 IN
       /\ ~log[1].thrown
       /\ Len(ItemsAfter.it) = Len(ItemsBefore.it)
       /\ \A j \in 1..Len(ItemsAfter.it) : ItemsAfter.it[j].st = "old"
       /\ ~ItemsAfter.it[i].v.new
       /\ toJSON(ItemsAfter.it[i].v) = log[1].p.value
       /\ \A j \in 1..Len(ItemsAfter.it) :
             j # i => ItemsAfter.it[j] = ItemsBefore.it[j]

\* {id: 2} at index 1 of three elements was replaced by {name: 1}
C26_Witness ==
    /\ AtIndex(PATCH_REPLACE)
    /\ log[1].p.path[2].idx = 1
    /\ YLen(ItemsBefore) = 3
    /\ toJSON(YGet(ItemsBefore, Idx(1))) = Obj([id |-> Num(2)])
    /\ log[1].p.value = Obj([name |-> Num(1)])
    /\ toJSON(YGet(ydoc, Key("items"))).s[2] = Obj([name |-> Num(1)])

\* the patch of the running call sets the length of items
AtLength ==
    /\ Patched
    /\ log[1].p.path = <<Key("items"), Key("length")>>

Nulls(n) == [i \in 1..n |-> Null]

\* C27: a patch whose last step is 'length', with value n, on a sequence
\* container of length m leaves it with length n: the first n elements
\* unchanged when n < m, the m elements followed by n - m nulls when n > m,
\* and the container untouched when n = m.
C27_LengthPatch ==
    AtLength
    => LET n == log[1].p.value.v
           m == YLen(ItemsBefore)
           was == Vis(ItemsBefore.it)
           now == Vis(ItemsAfter.it)
       IN /\ ~log[1].thrown
          /\ Len(now) = n
          /\ \A j \in 1..Min(n, m) : now[j] = was[j]
          /\ \A j \in (m + 1)..n : now[j].v = Null
          /\ n = m => log[1].raw = log[1].src
          /\ toJSON(YGet(ydoc, Key("items"))).s
               = IF n <= m THEN SubSeq(toJSON(ItemsBefore).s, 1, n)
                 ELSE toJSON(ItemsBefore).s \o Nulls(n - m)

\* three elements were cut to one, and two elements were padded to four
C27_Witness ==
    /\ AtLength
    /\ \/ YLen(ItemsBefore) = 3 /\ log[1].p.value.v = 1
             /\ Len(toJSON(YGet(ydoc, Key("items"))).s) = 1
       \/ YLen(ItemsBefore) = 2 /\ log[1].p.value.v = 4
             /\ toJSON(YGet(ydoc, Key("items"))).s[4] = Null

\* The parent of the patch of the running call: what the steps before the
\* last one reach in the source
ParentOf(y, path) == YWalk(y, Front(path))

\* The classes of patches without a mapping, on a source y
RootAddRemove(y, p) == p.path = <<>> /\ p.op # PATCH_REPLACE

RootKindDiffers(y, p) ==
    /\ p.path = <<>> /\ p.op = PATCH_REPLACE
    /\ \/ IsYMap(y) /\ p.value.t # "o"
       \/ IsYArr(y) /\ p.value.t # "a"

IndexOnKeyed(y, p) ==
    /\ p.path # <<>> /\ ~ParentOf(y, p.path).thrown
    /\ IsYMap(ParentOf(y, p.path).y) /\ IsIdx(Last(p.path))

NameOnSequence(y, p) ==
    /\ p.path # <<>> /\ ~ParentOf(y, p.path).thrown
    /\ IsYArr(ParentOf(y, p.path).y) /\ IsKey(Last(p.path))
    /\ Last(p.path) # Key("length")

ParentNoContainer(y, p) ==
    /\ p.path # <<>> /\ ~ParentOf(y, p.path).thrown
    /\ ~IsYType(ParentOf(y, p.path).y)

Unmapped(y, p) ==
    \/ RootAddRemove(y, p) \/ RootKindDiffers(y, p) \/ IndexOnKeyed(y, p)
    \/ NameOnSequence(y, p) \/ ParentNoContainer(y, p)

\* the default applier raised 'Not implemented' and left the tree as it was
Refused ==
    /\ log[1].thrown
    /\ notImplemented(log[1].src, log[1].p)
    /\ log[1].raw = log[1].src

\* C28: every patch without a mapping (add or remove at the root, a root
\* replace by a value of another kind than the root container, an index on
\* a keyed container, a name other than 'length' on a sequence container, a
\* parent that is no container) makes the default applier raise 'Not
\* implemented' and leaves the tree unmodified.
C28_UnmappedRefused ==
    Patched /\ Unmapped(log[1].src, log[1].p) => Refused

\* The delta run Yjs reported for the array of the source, <<>> when the
\* transaction of the running call had no event for it
ReportedDelta ==
    LET evs == SelectSeq(log[1].events,
                         LAMBDA ev : ev.k = "arr" /\ ev.path = ItemsPath)
    IN IF evs = <<>> THEN <<>> ELSE evs[1].delta

\* the observer of the binder has been called for that transaction
Replayed ==
    /\ Converts({"tx"})
    /\ ReportedDelta # <<>>
    /\ \E i \in 1..Len(log) : log[i].e = "observe" /\ log[i].b = "A"

\* C29: the delta run of a sequence container's event, replayed on the
\* snapshot's array with one cursor (retain moves it, delete removes at it,
\* insert splices the plain projections in at it and moves it past them),
\* gives the projection of the container after the transaction.
C29_DeltaReplay ==
    Replayed
    => /\ \A i \in 1..Len(log) : log[i].e = "observe" => log[i].act = "translate"
       /\ snapshot["A"].val.m["items"] = toJSON(YGet(ydoc, Key("items")))

\* a run with a retain, a delete and an insert was replayed
C29_Witness ==
    /\ Replayed
    /\ Len(ReportedDelta) >= 3
    /\ \E i \in 1..Len(ReportedDelta) : ReportedDelta[i].retain > 0
    /\ \E i \in 1..Len(ReportedDelta) : ReportedDelta[i].delete > 1
    /\ \E i \in 1..Len(ReportedDelta) : Len(ReportedDelta[i].insert) > 1
    /\ snapshot["A"].val # log[1].before

\* C30: an event whose base in the snapshot does not have the shape of its
\* container, or whose path does not resolve in the snapshot, is ignored: no
\* call of a binder's observer ends in an error.
C30_UnmatchedIgnored ==
    \A i \in 1..Len(log) : log[i].e = "observe" => log[i].act # "throw"

\* an update whose patch application raised is entered in the log
ThrewAt(i) == log[i].e = "update" /\ log[i].thrown /\ log[i].n > 0

\* this step is an update call whose patch application raises
Throws ==
    /\ log' # log
    /\ log' # <<>>
    /\ Last(log').e = "update" /\ Last(log').thrown /\ Last(log').n > 0

\* The stack below the observer calls of the transaction an update ended
BelowCommit(stk, id) ==
    IF stk # <<>> /\ Head(stk).k = "dispatch" /\ Head(stk).tx.id = id
    THEN Tail(stk) ELSE stk

\* C31: when patch application raises during an update, the error leaves
\* update (no notification round is left running), get() returns the same
\* object as before the call, and no subscriber is called for that call.
C31_ThrowLeavesSnapshot ==
    /\ [](\A i \in 1..Len(log) :
            ThrewAt(i)
            => \A j \in 1..Len(log) : log[j].e = "call" => log[j].r # log[i].id)
    /\ [][Throws
          => /\ snapshot'[Last(log').b]
                  = [ref |-> Last(log').held, val |-> Last(log').prev]
             /\ BelowCommit(stack', Last(log').id) # <<>>
             /\ Head(BelowCommit(stack', Last(log').id)).k # "round"]_vars

\* the second patch of an update raised after the first was applied, with
\* a subscriber listening, and the call has returned to the application
C31_Witness ==
    /\ \E i \in 1..Len(log) :
          /\ ThrewAt(i) /\ log[i].n = 2 /\ log[i].subs # <<>>
          /\ log[i].k > 0
    /\ \E j \in 1..Len(log[1].before.m["items"].s) :
          /\ toJSON(ydoc).m["items"].s[j] = Num(MaxArray)
          /\ log[1].before.m["items"].s[j] # Num(MaxArray)
    /\ snapshot["A"].val = log[1].before
    /\ Len(stack) = 1 /\ Head(stack).k = "call"

\* C32: whenever no call is running, the snapshot of every binder that uses
\* the default applier equals the plain projection of the source, also
\* after an update that raised part-way through its patches.
C32_SnapshotIsProjection ==
    stack = <<>>
    => \A b \in made : hooks[b] = "none" => snapshot[b].val = toJSON(ydoc)

\* The listeners binder b had when the round r began: update and the
\* observer enter them in the log just before subscription.forEach
AtRoundStart(r, b) ==
    UNION {Range(log[i].subs) :
             i \in {k \in 1..Len(log) :
                      \/ log[k].e = "update" /\ log[k].id = r /\ log[k].b = b
                      \/ log[k].e = "observe" /\ log[k].tx = r /\ log[k].b = b}}

\* C33: a listener subscribed, without immediate, by another listener
\* during a notification round is not called in that round: every listener
\* a round calls was subscribed when the round began.
C33_LateNotCalledInRound ==
    \A j \in 1..Len(log) :
        log[j].e = "call" /\ log[j].via # "immediate"
        => log[j].l \in AtRoundStart(log[j].r, log[j].b)

SetCount(n) == <<[op |-> "set", path |-> <<>>, key |-> "count", v |-> Num(n)]>>

\* What is left to do in the running call: the listeners the open rounds
\* have not visited, the observers the open dispatches have not called, the
\* transactions that wait, and the updates the chain listener will still
\* make (each opens one round and one dispatch).
FrameWeight(f) ==
    IF f.k = "round" THEN 2 * (Len(subs[f.b]) - f.pos) + 1
    ELSE IF f.k = "dispatch" THEN 2 * Len(f.todo) + 1
    ELSE 1

RECURSIVE StackWeight(_)
StackWeight(stk) ==
    IF stk = <<>> THEN 0 ELSE FrameWeight(Head(stk)) + StackWeight(Tail(stk))

ChainLeft ==
    LET v == snapshot["A"].val IN
    IF v.t = "o" /\ Has(v, "count") /\ v.m["count"].t = "n" /\ v.m["count"].v < ChainK
    THEN ChainK - v.m["count"].v
    ELSE 0

Potential ==
    StackWeight(stack) + Len(pending) * (2 * Len(obs) + 2)
        + ChainLeft * (2 * Len(subs["A"]) + 2 * Len(obs) + 4)

ChainCalls == {j \in 1..Len(log) : log[j].e = "call" /\ log[j].l = "chain"}

ChainBegun ==
    /\ log # <<>>
    /\ log[1].op = "update"
    /\ log[1].b = "A"
    /\ log[1].fn = SetCount(0)
    /\ log[1].sync
    /\ Registered("A", "chain")

ChainEnded ==
    /\ Cardinality(ChainCalls) = ChainK + 1
    /\ Has(snapshot["A"].val, "count")
    /\ snapshot["A"].val.m["count"] = Num(ChainK)
    /\ snapshot["A"].val = toJSON(ydoc)

\* C9: with the chain listener subscribed on a binder in step with its
\* source, update(count := 0) terminates (every step of the call lowers what
\* is left to do, which is never negative), and when the call is over the
\* listener has been invoked ChainK + 1 times, get().count is ChainK and the
\* snapshot equals the projection of the source.
C9_ChainTerminates ==
    [][ChainBegun =>
          /\ Potential' < Potential
          /\ Potential' >= 0
          /\ Done => ChainEnded]_vars

\* the chain has run to its end next to a second subscriber
C9_Witness ==
    /\ ChainBegun
    /\ Done
    /\ ChainEnded
    /\ Len(subs["A"]) = 2
    /\ Cardinality({j \in 1..Len(log) : log[j].e = "update"}) = ChainK + 1

====
